---------------------------- MODULE Spec2Model ----------------------------
(***************************************************************************)
(* A model of the arqlab ECMAScript front end: the lexer (package lexer),  *)
(* the Pratt expression parser and the statement parser (package parser).  *)
(* Source text is a sequence of one-character strings; a Position is the   *)
(* record the lexer keeps (byte offset, line, column); a token literal is  *)
(* the slice of the source it covers, or a one-element sequence holding a  *)
(* diagnostic message.                                                     *)
(***************************************************************************)
EXTENDS Integers, Sequences, FiniteSets, TLC

VARIABLES
  lx,           \* the stand-alone Lexer under test
  lastTok,      \* the token returned by the latest NextToken call on lx
  emitted,      \* the tokens returned by lx so far, oldest first
  ps,           \* the Parser (it owns a lexer of its own)
  programBody,  \* program.Body while ParseProgram runs
  pc,           \* where the run is: "lexing"; in ParseProgram "loop",
                \* "diverged" (inside a loop that never ends); after it
                \* "returned", "panicked"; "vm" while environments are used
  ret,          \* what ParseProgram returned: the program (or nil) and the error
  turn,         \* parity of the steps taken so far
  twin,         \* a second Lexer over the source of lx, and the tokens it returned
  envs,         \* the VM's environments, in the order of their creation
  call          \* the latest call on an environment, and what it returned

vars == <<lx, lastTok, emitted, ps, programBody, pc, ret, turn, twin, envs, call>>

----------------------------------------------------------------------------
(* Characters *)

NUL == ""        \* rune 0: what Lexer.ch holds at end of input
LF == "\n"
CR == "\r"
Backslash == "\\"
\* SANY admits no grave accent inside a string: the rune is named instead.
Backtick == "<backtick>"
\* a rune outside the Basic Multilingual Plane that is no letter and no digit
Astral == "<U+1F600>"

LowerLetters == {"a","b","c","d","e","f","g","h","i","j","k","l","m",
                 "n","o","p","q","r","s","t","u","v","w","x","y","z"}
UpperLetters == {"A","B","C","D","E","F","G","H","I","J","K","L","M",
                 "N","O","P","Q","R","S","T","U","V","W","X","Y","Z"}
Letters == LowerLetters \cup UpperLetters
DecDigits == {"0","1","2","3","4","5","6","7","8","9"}
HexDigits == DecDigits \cup {"a","b","c","d","e","f","A","B","C","D","E","F"}
OctDigits == {"0","1","2","3","4","5","6","7"}
BinDigits == {"0","1"}
BlankChars == {" ", "\t", "\f"}

isIdentifierStart(r) == r \in ({"_", "$"} \cup Letters)
isIdentifierPart(r) == isIdentifierStart(r) \/ r \in DecDigits
isOctalDigit(r) == r \in OctDigits
isBinaryDigit(r) == r \in BinDigits

----------------------------------------------------------------------------
(* Tokens and positions *)

Position(o, ln, col) == [Offset |-> o, Line |-> ln, Column |-> col]
Token(t, lit, s, e) == [Type |-> t, Literal |-> lit, Start |-> s, End |-> e]
ZeroPos == Position(0, 0, 0)
ZeroToken == Token("", <<>>, ZeroPos, ZeroPos)
NoErr == ""

LookupIdentifier(lit) ==
  CASE
       lit = <<"b","r","e","a","k">> -> "BREAK"
    [] lit = <<"c","a","s","e">> -> "CASE"
    [] lit = <<"c","a","t","c","h">> -> "CATCH"
    [] lit = <<"c","l","a","s","s">> -> "CLASS"
    [] lit = <<"c","o","n","s","t">> -> "CONST"
    [] lit = <<"c","o","n","t","i","n","u","e">> -> "CONTINUE"
    [] lit = <<"d","e","b","u","g","g","e","r">> -> "DEBUGGER"
    [] lit = <<"d","e","f","a","u","l","t">> -> "DEFAULT"
    [] lit = <<"d","e","l","e","t","e">> -> "DELETE"
    [] lit = <<"d","o">> -> "DO"
    [] lit = <<"e","l","s","e">> -> "ELSE"
    [] lit = <<"e","n","u","m">> -> "ENUM"
    [] lit = <<"e","x","p","o","r","t">> -> "EXPORT"
    [] lit = <<"e","x","t","e","n","d","s">> -> "EXTENDS"
    [] lit = <<"f","i","n","a","l","l","y">> -> "FINALLY"
    [] lit = <<"f","o","r">> -> "FOR"
    [] lit = <<"f","u","n","c","t","i","o","n">> -> "FUNCTION"
    [] lit = <<"i","f">> -> "IF"
    [] lit = <<"i","m","p","o","r","t">> -> "IMPORT"
    [] lit = <<"i","n">> -> "IN"
    [] lit = <<"i","n","s","t","a","n","c","e","o","f">> -> "INSTANCEOF"
    [] lit = <<"l","e","t">> -> "LET"
    [] lit = <<"n","e","w">> -> "NEW"
    [] lit = <<"r","e","t","u","r","n">> -> "RETURN"
    [] lit = <<"s","u","p","e","r">> -> "SUPER"
    [] lit = <<"s","w","i","t","c","h">> -> "SWITCH"
    [] lit = <<"t","h","i","s">> -> "THIS"
    [] lit = <<"t","h","r","o","w">> -> "THROW"
    [] lit = <<"t","r","y">> -> "TRY"
    [] lit = <<"t","y","p","e","o","f">> -> "TYPEOF"
    [] lit = <<"v","a","r">> -> "VAR"
    [] lit = <<"v","o","i","d">> -> "VOID"
    [] lit = <<"w","h","i","l","e">> -> "WHILE"
    [] lit = <<"w","i","t","h">> -> "WITH"
    [] lit = <<"y","i","e","l","d">> -> "YIELD"
    [] lit = <<"p","a","c","k","a","g","e">> -> "PACKAGE"
    [] lit = <<"p","r","i","v","a","t","e">> -> "PRIVATE"
    [] lit = <<"p","r","o","t","e","c","t","e","d">> -> "PROTECTED"
    [] lit = <<"p","u","b","l","i","c">> -> "PUBLIC"
    [] lit = <<"i","n","t","e","r","f","a","c","e">> -> "INTERFACE"
    [] lit = <<"i","m","p","l","e","m","e","n","t","s">> -> "IMPLEMENTS"
    [] lit = <<"n","u","l","l">> -> "NULL"
    [] lit = <<"t","r","u","e">> -> "TRUE"
    [] lit = <<"f","a","l","s","e">> -> "FALSE"
    [] OTHER -> "IDENT"


----------------------------------------------------------------------------
(* Calls between the methods of Lexer go through LexerCall, which selects   *)
(* the method body by name; Lexer_m is the body of method m.                *)

RECURSIVE LexerCall(_, _)

advance(a1) == LexerCall("advance", <<a1>>)
NextToken(a1) == LexerCall("NextToken", <<a1>>)
skipWhitespaceAndComments(a1) == LexerCall("skipWhitespaceAndComments", <<a1>>)
consumeLineComment(a1) == LexerCall("consumeLineComment", <<a1>>)
consumeBlockComment(a1) == LexerCall("consumeBlockComment", <<a1>>)
scanSlash(a1, a2) == LexerCall("scanSlash", <<a1, a2>>)
scanRegularExpression(a1, a2) == LexerCall("scanRegularExpression", <<a1, a2>>)
scanString(a1, a2, a3) == LexerCall("scanString", <<a1, a2, a3>>)
scanNumber(a1, a2) == LexerCall("scanNumber", <<a1, a2>>)
readNumberLiteral(a1) == LexerCall("readNumberLiteral", <<a1>>)
consumeDigits(a1, a2) == LexerCall("consumeDigits", <<a1, a2>>)
scanDot(a1, a2) == LexerCall("scanDot", <<a1, a2>>)
scanIdentifier(a1, a2) == LexerCall("scanIdentifier", <<a1, a2>>)
scanOperator(a1, a2) == LexerCall("scanOperator", <<a1, a2>>)
scanPunctuation(a1, a2) == LexerCall("scanPunctuation", <<a1, a2>>)
lexTemplateChunk(a1, a2) == LexerCall("lexTemplateChunk", <<a1, a2>>)
updateAfterToken(a1, a2) == LexerCall("updateAfterToken", <<a1, a2>>)
----------------------------------------------------------------------------
(* Lexer: cursor *)

\* utf8.DecodeRuneInString: every character of the modelled alphabet is one
\* byte wide.
runeSize(r) == 1

lexSlice(l, start, end) == SubSeq(l.src, start.Offset + 1, end.Offset)

Lexer_advance(l) ==
  LET pos == l.nextPos IN
  IF pos.Offset >= Len(l.src)
  THEN [l EXCEPT !.ch = NUL, !.chPos = pos]
  ELSE
    LET r0 == l.src[pos.Offset + 1]
        off0 == pos.Offset + runeSize(r0)
        offset == IF r0 = CR /\ off0 < Len(l.src) /\ l.src[off0 + 1] = LF
                  THEN off0 + 1 ELSE off0
        r == IF r0 = CR THEN LF ELSE r0
    IN [l EXCEPT !.ch = r,
                 !.chPos = Position(pos.Offset, pos.Line, pos.Column),
                 !.nextPos = IF r = LF
                             THEN Position(offset, pos.Line + 1, 0)
                             ELSE Position(offset, pos.Line, pos.Column + 1)]

peekRune(l) ==
  IF l.nextPos.Offset >= Len(l.src) THEN NUL
  ELSE LET r == l.src[l.nextPos.Offset + 1] IN IF r = CR THEN LF ELSE r

RECURSIVE peekOffset(_, _, _)
peekOffset(l, offset, n) ==
  IF n = 0 THEN offset
  ELSE IF offset >= Len(l.src) THEN -1
  ELSE LET r == l.src[offset + 1]
           size == IF r = CR /\ offset + 1 < Len(l.src) /\ l.src[offset + 2] = LF
                   THEN 2 ELSE runeSize(r)
       IN peekOffset(l, offset + size, n - 1)

peekRuneN(l, n) ==
  LET offset == peekOffset(l, l.nextPos.Offset, n) IN
  IF offset < 0 \/ offset >= Len(l.src) THEN NUL
  ELSE LET r == l.src[offset + 1] IN IF r = CR THEN LF ELSE r

LexerNew(src) ==
  advance([src |-> src, ch |-> NUL, chPos |-> ZeroPos,
           nextPos |-> Position(0, 1, 0),
           buffer |-> <<>>, contexts |-> <<>>,
           continueTemplate |-> FALSE, canStartRegex |-> TRUE,
           lineTerminatorBefore |-> FALSE, lastTokenType |-> "ILLEGAL",
           err |-> NoErr])

\* A scanner's result: the lexer after it, the token, and whether a token
\* was produced.
Scan(l, t, ok) == [l |-> l, tok |-> t, ok |-> ok]
\* A token of type typ covering start .. the cursor.
Lexeme(l, typ, start) == Token(typ, lexSlice(l, start, l.chPos), start, l.chPos)

----------------------------------------------------------------------------
(* Lexer: comments and white space *)

Lexer_consumeLineComment(l) ==
  IF l.ch # NUL /\ l.ch # LF THEN consumeLineComment(advance(l)) ELSE l

Lexer_consumeBlockComment(l) ==
  IF l.ch = NUL THEN [l |-> l, err |-> "unterminated block comment"]
  ELSE IF l.ch = "*" /\ peekRune(l) = "/"
  THEN [l |-> advance(advance(l)), err |-> NoErr]
  ELSE consumeBlockComment(
         advance(IF l.ch = LF THEN [l EXCEPT !.lineTerminatorBefore = TRUE] ELSE l))

Lexer_skipWhitespaceAndComments(l) ==
  IF l.ch \in BlankChars THEN skipWhitespaceAndComments(advance(l))
  ELSE IF l.ch = LF
  THEN skipWhitespaceAndComments(advance([l EXCEPT !.lineTerminatorBefore = TRUE]))
  ELSE IF l.ch = "/" /\ peekRune(l) = "/"
  THEN skipWhitespaceAndComments(consumeLineComment(advance(advance(l))))
  ELSE IF l.ch = "/" /\ peekRune(l) = "*"
  THEN LET c == consumeBlockComment(advance(advance(l))) IN
       IF c.err # NoErr THEN [c.l EXCEPT !.err = c.err]
       ELSE skipWhitespaceAndComments(c.l)
  ELSE l

----------------------------------------------------------------------------
(* Lexer: literals *)

RECURSIVE regexBody(_, _)
regexBody(l, inClass) ==
  CASE l.ch = NUL \/ l.ch = LF ->
         [l |-> l, err |-> "unterminated regular expression literal"]
    [] l.ch = "/" -> IF ~inClass THEN [l |-> advance(l), err |-> NoErr]
                     ELSE regexBody(advance(l), inClass)
    [] l.ch = "[" -> regexBody(advance(l), TRUE)
    [] l.ch = "]" -> regexBody(advance(l), FALSE)
    [] l.ch = Backslash ->
         LET l1 == advance(l) IN
         IF l1.ch = NUL
         THEN [l |-> l1, err |-> "unterminated regular expression escape"]
         ELSE regexBody(advance(l1), inClass)
    [] OTHER -> regexBody(advance(l), inClass)

RECURSIVE regexFlags(_)
regexFlags(l) == IF isIdentifierPart(l.ch) THEN regexFlags(advance(l)) ELSE l

Lexer_scanRegularExpression(l, start) ==
  LET b == regexBody(advance(l), FALSE) IN
  IF b.err # NoErr THEN [l |-> b.l, tok |-> ZeroToken, err |-> b.err]
  ELSE LET l1 == regexFlags(b.l) IN
       [l |-> l1, tok |-> Lexeme(l1, "REGEXP", start), err |-> NoErr]

Lexer_scanSlash(l, start) ==
  LET next == peekRune(l) IN
  IF next = "/"
  THEN Scan(consumeLineComment(advance(advance(l))), ZeroToken, FALSE)
  ELSE IF next = "*"
  THEN LET c == consumeBlockComment(advance(advance(l))) IN
       Scan(IF c.err # NoErr THEN [c.l EXCEPT !.err = c.err] ELSE c.l,
            ZeroToken, FALSE)
  ELSE IF l.canStartRegex
  THEN LET r == scanRegularExpression(l, start) IN
       IF r.err # NoErr THEN Scan([r.l EXCEPT !.err = r.err], ZeroToken, FALSE)
       ELSE Scan(r.l, r.tok, TRUE)
  ELSE LET l1 == advance(l) IN
       IF next = "=" THEN LET l2 == advance(l1) IN
                          Scan(l2, Lexeme(l2, "DIVIDE_ASSIGN", start), TRUE)
       ELSE Scan(l1, Lexeme(l1, "DIVIDE", start), TRUE)

RECURSIVE stringBody(_, _, _)
stringBody(l, start, quote) ==
  CASE l.ch = NUL \/ l.ch = LF ->
         Scan([l EXCEPT !.err = "unterminated string literal"], ZeroToken, FALSE)
    [] l.ch = Backslash ->
         LET l1 == advance(l) IN
         IF l1.ch = NUL
         THEN Scan([l1 EXCEPT !.err = "unterminated escape sequence"],
                   ZeroToken, FALSE)
         ELSE stringBody(advance(l1), start, quote)
    [] l.ch = quote -> LET l1 == advance(l) IN
                       Scan(l1, Lexeme(l1, "STRING", start), TRUE)
    [] OTHER -> stringBody(advance(l), start, quote)

Lexer_scanString(l, start, quote) == stringBody(advance(l), start, quote)

RECURSIVE digitRun(_, _, _)
\* consumeDigits: the lexer after the digits and whether there was one.
digitRun(l, digits, count) ==
  IF l.ch \in digits THEN digitRun(advance(l), digits, count + 1)
  ELSE [l |-> l, any |-> count > 0]

Lexer_consumeDigits(l, digits) == digitRun(l, digits, 0)

NumberResult(l, start, typ, err) ==
  [l |-> l, literal |-> lexSlice(l, start, l.chPos), typ |-> typ, err |-> err]

readRadixLiteral(l, start, digits, err) ==
  LET d == consumeDigits(advance(advance(l)), digits) IN
  IF ~d.any THEN NumberResult(d.l, start, "ILLEGAL", err)
  ELSE NumberResult(d.l, start, "NUMBER", NoErr)

readExponent(l, start) ==
  IF l.ch = "e" \/ l.ch = "E"
  THEN LET l1 == advance(l)
           l2 == IF l1.ch = "+" \/ l1.ch = "-" THEN advance(l1) ELSE l1
           d == consumeDigits(l2, DecDigits)
       IN IF ~d.any
          THEN NumberResult(d.l, start, "ILLEGAL", "invalid exponent in numeric literal")
          ELSE NumberResult(d.l, start, "NUMBER", NoErr)
  ELSE NumberResult(l, start, "NUMBER", NoErr)

Lexer_readNumberLiteral(l) ==
  LET start == l.chPos
      next == peekRune(l)
  IN
  IF l.ch = "0" /\ next \in {"x", "X"}
  THEN readRadixLiteral(l, start, HexDigits, "invalid hexadecimal literal")
  ELSE IF l.ch = "0" /\ next \in {"o", "O"}
  THEN readRadixLiteral(l, start, OctDigits, "invalid octal literal")
  ELSE IF l.ch = "0" /\ next \in {"b", "B"}
  THEN readRadixLiteral(l, start, BinDigits, "invalid binary literal")
  ELSE
    LET l1 == consumeDigits(l, DecDigits).l IN
    IF l1.ch = "."
    THEN LET d == consumeDigits(advance(l1), DecDigits) IN
         IF ~d.any
         THEN NumberResult(d.l, start, "ILLEGAL", "invalid floating-point literal")
         ELSE readExponent(d.l, start)
    ELSE readExponent(l1, start)

Lexer_scanNumber(l, start) ==
  LET n == readNumberLiteral(l) IN
  IF n.err # NoErr
  THEN [l |-> [n.l EXCEPT !.err = n.err],
        tok |-> Token("ILLEGAL", n.literal, start, n.l.chPos)]
  ELSE [l |-> n.l, tok |-> Token(n.typ, n.literal, start, n.l.chPos)]

Lexer_scanDot(l, start) ==
  IF peekRune(l) = "." /\ peekRuneN(l, 1) = "."
  THEN LET l3 == advance(advance(advance(l))) IN
       [l |-> l3, tok |-> Lexeme(l3, "ELLIPSIS", start)]
  ELSE IF peekRune(l) \in DecDigits THEN scanNumber(l, start)
  ELSE LET l1 == advance(l) IN [l |-> l1, tok |-> Lexeme(l1, "DOT", start)]

RECURSIVE identifierEnd(_)
identifierEnd(l) == IF isIdentifierPart(l.ch) THEN identifierEnd(advance(l)) ELSE l

Lexer_scanIdentifier(l, start) ==
  LET l1 == identifierEnd(l)
      literal == lexSlice(l1, start, l1.chPos)
  IN [l |-> l1, tok |-> Token(LookupIdentifier(literal), literal, start, l1.chPos)]

----------------------------------------------------------------------------
(* Lexer: operators and punctuation *)

\* The token of type typ that ends at the cursor of l.
Op(l, typ, start) == [l |-> l, tok |-> Lexeme(l, typ, start)]

scanOperatorOneCharacter(l, start) ==
  Op(advance(l),
     CASE l.ch = "+" -> "PLUS" [] l.ch = "-" -> "MINUS" [] l.ch = "*" -> "MULTIPLY"
       [] l.ch = "%" -> "MODULO" [] l.ch = "&" -> "BITWISE_AND"
       [] l.ch = "|" -> "BITWISE_OR" [] l.ch = "^" -> "BITWISE_XOR"
       [] l.ch = "!" -> "LOGICAL_NOT" [] l.ch = "=" -> "ASSIGN"
       [] l.ch = "<" -> "LESS_THAN" [] l.ch = ">" -> "GREATER_THAN"
       [] l.ch = "?" -> "QUESTION" [] l.ch = ":" -> "COLON"
       [] OTHER -> "ILLEGAL",
     start)

Lexer_scanOperator(l, start) ==
  LET l1 == advance(l)
      l2 == advance(l1)
      l3 == advance(l2)
      l4 == advance(l3)
  IN
  CASE l.ch = "+" ->
         IF l1.ch = "+" THEN Op(l2, "INCREMENT", start)
         ELSE IF l1.ch = "=" THEN Op(l2, "PLUS_ASSIGN", start)
         ELSE Op(l1, "PLUS", start)
    [] l.ch = "-" ->
         IF l1.ch = "-" THEN Op(l2, "DECREMENT", start)
         ELSE IF l1.ch = "=" THEN Op(l2, "MINUS_ASSIGN", start)
         ELSE Op(l1, "MINUS", start)
    [] l.ch = "*" ->
         IF l1.ch = "=" THEN Op(l2, "MULTIPLY_ASSIGN", start)
         ELSE Op(l1, "MULTIPLY", start)
    [] l.ch = "%" ->
         IF l1.ch = "=" THEN Op(l2, "MODULO_ASSIGN", start)
         ELSE Op(l1, "MODULO", start)
    [] l.ch = "&" ->
         IF l1.ch = "&" THEN Op(l2, "LOGICAL_AND", start)
         ELSE IF l1.ch = "=" THEN Op(l2, "BITWISE_AND_ASSIGN", start)
         ELSE Op(l1, "BITWISE_AND", start)
    [] l.ch = "|" ->
         IF l1.ch = "|" THEN Op(l2, "LOGICAL_OR", start)
         ELSE IF l1.ch = "=" THEN Op(l2, "BITWISE_OR_ASSIGN", start)
         ELSE Op(l1, "BITWISE_OR", start)
    [] l.ch = "^" ->
         IF l1.ch = "=" THEN Op(l2, "BITWISE_XOR_ASSIGN", start)
         ELSE Op(l1, "BITWISE_XOR", start)
    [] l.ch = "!" ->
         IF l1.ch = "="
         THEN IF l2.ch = "=" THEN Op(l3, "STRICT_NOT_EQUAL", start)
              ELSE Op(l2, "NOT_EQUAL", start)
         ELSE Op(l1, "LOGICAL_NOT", start)
    [] l.ch = "=" ->
         IF l1.ch = "="
         THEN IF l2.ch = "=" THEN Op(l3, "STRICT_EQUAL", start)
              ELSE Op(l2, "EQUAL", start)
         ELSE IF l1.ch = ">" THEN Op(l2, "ARROW", start)
         ELSE Op(l1, "ASSIGN", start)
    [] l.ch = "<" ->
         IF l1.ch = "<"
         THEN IF l2.ch = "=" THEN Op(l3, "SHIFT_LEFT_ASSIGN", start)
              ELSE Op(l2, "SHIFT_LEFT", start)
         ELSE IF l1.ch = "=" THEN Op(l2, "LESS_EQUAL", start)
         ELSE Op(l1, "LESS_THAN", start)
    [] l.ch = ">" ->
         IF l1.ch = ">"
         THEN IF l2.ch = ">"
              THEN IF l3.ch = "=" THEN Op(l4, "UNSIGNED_SHIFT_ASSIGN", start)
                   ELSE Op(l3, "UNSIGNED_SHIFT_RIGHT", start)
              ELSE IF l2.ch = "=" THEN Op(l3, "SHIFT_RIGHT_ASSIGN", start)
              ELSE Op(l2, "SHIFT_RIGHT", start)
         ELSE IF l1.ch = "=" THEN Op(l2, "GREATER_EQUAL", start)
         ELSE Op(l1, "GREATER_THAN", start)
    [] l.ch = "?" -> Op(l1, "QUESTION", start)
    [] l.ch = ":" -> Op(l1, "COLON", start)
    [] OTHER -> Op(l1, "ILLEGAL", start)

\* Go's contexts[len(contexts)-1].braceDepth, and its update.
topDepth(l) == l.contexts[Len(l.contexts)]
setTopDepth(l, d) == [l EXCEPT !.contexts[Len(l.contexts)] = d]

Lexer_scanPunctuation(l, start) ==
  LET l1 == advance(l) IN
  CASE l.ch = "{" -> Op(l1, "LBRACE", start)
    [] l.ch = "}" ->
         IF Len(l.contexts) > 0 /\ topDepth(l) = 0
         THEN Op([l1 EXCEPT !.continueTemplate = TRUE], "TEMPLATE_EXPR_END", start)
         ELSE IF Len(l.contexts) > 0
         THEN Op(advance(setTopDepth(l, topDepth(l) - 1)), "RBRACE", start)
         ELSE Op(l1, "RBRACE", start)
    [] l.ch = "(" -> Op(l1, "LPAREN", start)
    [] l.ch = ")" -> Op(l1, "RPAREN", start)
    [] l.ch = "[" -> Op(l1, "LBRACKET", start)
    [] l.ch = "]" -> Op(l1, "RBRACKET", start)
    [] l.ch = "," -> Op(l1, "COMMA", start)
    [] l.ch = ";" -> Op(l1, "SEMICOLON", start)
    [] OTHER -> Op(l1, "ILLEGAL", start)

----------------------------------------------------------------------------
(* Lexer: template literals *)

RECURSIVE templateChunk(_, _, _)
\* The scanning loop of lexTemplateChunk; err is the error it returns.
templateChunk(l, chunkStart, startWithBacktick) ==
  CASE l.ch = NUL -> [l |-> l, err |-> "unterminated template literal"]
    [] l.ch = Backtick ->
         LET lit == lexSlice(l, chunkStart, l.chPos)
             l1 == advance(l)
             tail == Token("TEMPLATE_TAIL", lit, chunkStart, l1.chPos)
         IN [l |-> [l1 EXCEPT !.buffer = Append(@, tail),
                              !.contexts = IF Len(@) > 0
                                           THEN SubSeq(@, 1, Len(@) - 1) ELSE @,
                              !.continueTemplate = FALSE],
             err |-> NoErr]
    [] l.ch = "$" ->
         IF peekRune(l) = "{"
         THEN LET lit == lexSlice(l, chunkStart, l.chPos)
                  tokType == IF ~startWithBacktick THEN "TEMPLATE_MIDDLE"
                             ELSE IF Len(l.contexts) > 0 THEN "TEMPLATE_MIDDLE"
                             ELSE "TEMPLATE_HEAD"
                  head == Token(tokType, lit, chunkStart, l.chPos)
                  l1 == advance(l)
                  braceStart == l1.chPos
                  l2 == advance(l1)
                  exprStart == Token("TEMPLATE_EXPR_START", <<"$", "{">>,
                                     braceStart, l2.chPos)
              IN [l |-> [l2 EXCEPT !.buffer = @ \o <<head, exprStart>>,
                                   !.contexts = Append(@, 0),
                                   !.continueTemplate = FALSE],
                  err |-> NoErr]
         ELSE templateChunk(advance(l), chunkStart, startWithBacktick)
    [] l.ch = Backslash ->
         LET l1 == advance(l) IN
         IF l1.ch = NUL
         THEN [l |-> l1, err |-> "unterminated escape in template literal"]
         ELSE templateChunk(advance(l1), chunkStart, startWithBacktick)
    [] OTHER ->
         templateChunk(
           advance(IF l.ch = "{" /\ Len(l.contexts) > 0
                   THEN setTopDepth(l, topDepth(l) + 1) ELSE l),
           chunkStart, startWithBacktick)

Lexer_lexTemplateChunk(l, startWithBacktick) ==
  LET l0 == IF startWithBacktick THEN advance(l) ELSE l IN
  templateChunk(l0, l0.chPos, startWithBacktick)

----------------------------------------------------------------------------
(* Lexer: NextToken *)

\* The token kinds after which updateAfterToken clears canStartRegex.
RegexForbiddenAfter ==
  {"RBRACE", "IDENT", "NUMBER", "STRING", "TRUE", "FALSE", "NULL",
   "TEMPLATE_TAIL", "RPAREN", "RBRACKET", "TEMPLATE_EXPR_END"}

regexAllowedAfterAnything(typ) == TRUE

\* the regex flag kept in one place for all lexers: it follows the token that
\* lx returned last, whichever lexer asks
regexAllowedBySharedFlag(typ) == lastTok.Type \notin RegexForbiddenAfter

canStartRegexAfter(typ) == typ \notin RegexForbiddenAfter

\* updateAfterToken with EOF handled by the TemplateExprEnd case, so that the
\* next call resumes template text.
updateAfterTokenResumingAtEOF(l, t) ==
  LET hasCtx == Len(l.contexts) > 0
      l1 == CASE t.Type = "LBRACE" /\ hasCtx -> setTopDepth(l, topDepth(l) + 1)
              [] t.Type = "RBRACE" /\ hasCtx /\ topDepth(l) > 0 ->
                   setTopDepth(l, topDepth(l) - 1)
              [] t.Type \in {"TEMPLATE_HEAD", "TEMPLATE_MIDDLE", "TEMPLATE_EXPR_START"} ->
                   [l EXCEPT !.continueTemplate = FALSE]
              [] t.Type \in {"TEMPLATE_EXPR_END", "EOF"} ->
                   [l EXCEPT !.continueTemplate = TRUE]
              [] OTHER -> l
  IN [l1 EXCEPT !.canStartRegex = canStartRegexAfter(t.Type),
                !.lastTokenType = t.Type,
                !.lineTerminatorBefore = FALSE]

\* updateAfterToken that leaves template text behind after TemplateExprEnd
updateAfterTokenLeavingTemplate(l, t) ==
  LET hasCtx == Len(l.contexts) > 0
      l1 == CASE t.Type = "LBRACE" /\ hasCtx -> setTopDepth(l, topDepth(l) + 1)
              [] t.Type = "RBRACE" /\ hasCtx /\ topDepth(l) > 0 ->
                   setTopDepth(l, topDepth(l) - 1)
              [] t.Type \in {"TEMPLATE_HEAD", "TEMPLATE_MIDDLE", "TEMPLATE_EXPR_START",
                             "TEMPLATE_EXPR_END"} ->
                   [l EXCEPT !.continueTemplate = FALSE]
              [] OTHER -> l
  IN [l1 EXCEPT !.canStartRegex = canStartRegexAfter(t.Type),
                !.lastTokenType = t.Type,
                !.lineTerminatorBefore = FALSE]

Lexer_updateAfterToken(l, t) ==
  LET hasCtx == Len(l.contexts) > 0
      l1 == CASE t.Type = "LBRACE" /\ hasCtx -> setTopDepth(l, topDepth(l) + 1)
              [] t.Type = "RBRACE" /\ hasCtx /\ topDepth(l) > 0 ->
                   setTopDepth(l, topDepth(l) - 1)
              [] t.Type \in {"TEMPLATE_HEAD", "TEMPLATE_MIDDLE", "TEMPLATE_EXPR_START"} ->
                   [l EXCEPT !.continueTemplate = FALSE]
              [] t.Type = "TEMPLATE_EXPR_END" -> [l EXCEPT !.continueTemplate = TRUE]
              [] OTHER -> l
  IN [l1 EXCEPT !.canStartRegex = canStartRegexAfter(t.Type),
                !.lastTokenType = t.Type,
                !.lineTerminatorBefore = FALSE]

\* A token returned by NextToken: the lexer after updateAfterToken, and the token.
Emit(l, t) == [l |-> updateAfterToken(l, t), tok |-> t]

Lexer_NextToken(l) ==
  IF Len(l.buffer) > 0
  THEN Emit([l EXCEPT !.buffer = Tail(@)], Head(l.buffer))
  ELSE IF l.err # NoErr
  THEN Emit([l EXCEPT !.err = NoErr], Token("ILLEGAL", <<l.err>>, l.chPos, l.chPos))
  ELSE IF l.continueTemplate
  THEN LET c == lexTemplateChunk(l, FALSE) IN
       NextToken(IF c.err # NoErr THEN [c.l EXCEPT !.err = c.err] ELSE c.l)
  ELSE
    LET l1 == skipWhitespaceAndComments(l)
        start == l1.chPos
    IN
    IF l1.err # NoErr THEN NextToken(l1)
    ELSE
      CASE l1.ch = NUL -> Emit(l1, Token("EOF", <<>>, start, start))
        [] l1.ch = Backtick ->
             LET c == lexTemplateChunk(l1, TRUE) IN
             NextToken(IF c.err # NoErr THEN [c.l EXCEPT !.err = c.err] ELSE c.l)
        [] l1.ch = "/" ->
             LET s == scanSlash(l1, start) IN
             IF s.ok THEN Emit(s.l, s.tok) ELSE NextToken(s.l)
        [] l1.ch \in {"'", "\""} ->
             LET s == scanString(l1, start, l1.ch) IN
             IF s.ok THEN Emit(s.l, s.tok) ELSE NextToken(s.l)
        [] l1.ch = "." -> LET s == scanDot(l1, start) IN Emit(s.l, s.tok)
        [] l1.ch \in {"+", "-", "*", "%", "&", "|", "^", "!", "=", "<", ">", "?", ":"} ->
             LET s == scanOperator(l1, start) IN Emit(s.l, s.tok)
        [] l1.ch \in {"{", "}", "(", ")", "[", "]", ",", ";"} ->
             LET s == scanPunctuation(l1, start) IN Emit(s.l, s.tok)
        [] isIdentifierStart(l1.ch) ->
             LET s == scanIdentifier(l1, start) IN Emit(s.l, s.tok)
        [] l1.ch \in DecDigits -> LET s == scanNumber(l1, start) IN Emit(s.l, s.tok)
        [] OTHER ->
             LET l2 == advance(l1) IN
             Emit(l2, Token("ILLEGAL", <<"unexpected character", l1.ch>>, start, l2.chPos))

\* the method of Lexer named fn applied to the arguments a
LexerCall(fn, a) ==
  CASE fn = "advance" -> Lexer_advance(a[1])
    [] fn = "NextToken" -> Lexer_NextToken(a[1])
    [] fn = "skipWhitespaceAndComments" -> Lexer_skipWhitespaceAndComments(a[1])
    [] fn = "consumeLineComment" -> Lexer_consumeLineComment(a[1])
    [] fn = "consumeBlockComment" -> Lexer_consumeBlockComment(a[1])
    [] fn = "scanSlash" -> Lexer_scanSlash(a[1], a[2])
    [] fn = "scanRegularExpression" -> Lexer_scanRegularExpression(a[1], a[2])
    [] fn = "scanString" -> Lexer_scanString(a[1], a[2], a[3])
    [] fn = "scanNumber" -> Lexer_scanNumber(a[1], a[2])
    [] fn = "readNumberLiteral" -> Lexer_readNumberLiteral(a[1])
    [] fn = "consumeDigits" -> Lexer_consumeDigits(a[1], a[2])
    [] fn = "scanDot" -> Lexer_scanDot(a[1], a[2])
    [] fn = "scanIdentifier" -> Lexer_scanIdentifier(a[1], a[2])
    [] fn = "scanOperator" -> Lexer_scanOperator(a[1], a[2])
    [] fn = "scanPunctuation" -> Lexer_scanPunctuation(a[1], a[2])
    [] fn = "lexTemplateChunk" -> Lexer_lexTemplateChunk(a[1], a[2])
    [] fn = "updateAfterToken" -> Lexer_updateAfterToken(a[1], a[2])

----------------------------------------------------------------------------
(* Calls between the methods of Parser go through ParserCall, which selects *)
(* the method body by name; Parser_m is the body of method m.               *)

RECURSIVE ParserCall(_, _)

nextToken(a1) == ParserCall("nextToken", <<a1>>)
expectPeek(a1, a2) == ParserCall("expectPeek", <<a1, a2>>)
parseExpression(a1, a2) == ParserCall("parseExpression", <<a1, a2>>)
parseStatement(a1) == ParserCall("parseStatement", <<a1>>)
parseGroupedExpression(a1) == ParserCall("parseGroupedExpression", <<a1>>)
parsePrefixExpression(a1) == ParserCall("parsePrefixExpression", <<a1>>)
parsePostfixExpression(a1, a2) == ParserCall("parsePostfixExpression", <<a1, a2>>)
parseInfixExpression(a1, a2) == ParserCall("parseInfixExpression", <<a1, a2>>)
parseLogicalExpression(a1, a2) == ParserCall("parseLogicalExpression", <<a1, a2>>)
parseAssignmentExpression(a1, a2) == ParserCall("parseAssignmentExpression", <<a1, a2>>)
parseNewExpression(a1) == ParserCall("parseNewExpression", <<a1>>)
parseConditionalExpression(a1, a2) == ParserCall("parseConditionalExpression", <<a1, a2>>)
parseCallExpression(a1, a2) == ParserCall("parseCallExpression", <<a1, a2>>)
parseMemberExpression(a1, a2) == ParserCall("parseMemberExpression", <<a1, a2>>)
parseComputedMemberExpression(a1, a2) == ParserCall("parseComputedMemberExpression", <<a1, a2>>)
parseSequenceExpression(a1, a2) == ParserCall("parseSequenceExpression", <<a1, a2>>)
parseArrayLiteral(a1) == ParserCall("parseArrayLiteral", <<a1>>)
parseObjectLiteral(a1) == ParserCall("parseObjectLiteral", <<a1>>)
parseObjectProperty(a1) == ParserCall("parseObjectProperty", <<a1>>)
parseStringLiteral(a1) == ParserCall("parseStringLiteral", <<a1>>)
parseBlockStatement(a1) == ParserCall("parseBlockStatement", <<a1>>)
parseIfStatement(a1) == ParserCall("parseIfStatement", <<a1>>)
parseWhileStatement(a1) == ParserCall("parseWhileStatement", <<a1>>)
parseLabeledStatement(a1) == ParserCall("parseLabeledStatement", <<a1>>)
parseVariableStatement(a1) == ParserCall("parseVariableStatement", <<a1>>)
parseVariableDeclarator(a1) == ParserCall("parseVariableDeclarator", <<a1>>)
parseBindingElement(a1, a2) == ParserCall("parseBindingElement", <<a1, a2>>)
parseBindingPrimary(a1) == ParserCall("parseBindingPrimary", <<a1>>)
parseArrayPattern(a1) == ParserCall("parseArrayPattern", <<a1>>)
parseObjectPattern(a1) == ParserCall("parseObjectPattern", <<a1>>)
parseObjectPatternProperty(a1) == ParserCall("parseObjectPatternProperty", <<a1>>)
parseFunctionParams(a1) == ParserCall("parseFunctionParams", <<a1>>)
parseFunctionDeclaration(a1) == ParserCall("parseFunctionDeclaration", <<a1>>)
parseExpressionStatement(a1) == ParserCall("parseExpressionStatement", <<a1>>)
parseReturnStatement(a1) == ParserCall("parseReturnStatement", <<a1>>)
parseThrowStatement(a1) == ParserCall("parseThrowStatement", <<a1>>)
parseSwitchStatement(a1) == ParserCall("parseSwitchStatement", <<a1>>)
switchCases(a1, a2, a3) == ParserCall("switchCases", <<a1, a2, a3>>)
switchConsequent(a1, a2, a3) == ParserCall("switchConsequent", <<a1, a2, a3>>)
parseTryStatement(a1) == ParserCall("parseTryStatement", <<a1>>)
parseCatchClause(a1) == ParserCall("parseCatchClause", <<a1>>)
parseBreakStatement(a1) == ParserCall("parseBreakStatement", <<a1>>)
parseContinueStatement(a1) == ParserCall("parseContinueStatement", <<a1>>)
parseDebuggerStatement(a1) == ParserCall("parseDebuggerStatement", <<a1>>)
parseEmptyStatement(a1) == ParserCall("parseEmptyStatement", <<a1>>)
wrapNewExpression(a1, a2, a3) == ParserCall("wrapNewExpression", <<a1, a2, a3>>)

----------------------------------------------------------------------------
(* AST nodes.  A node is a record holding its kind, its location and the    *)
(* fields of the Go struct; the nil node is Nil.  A Go slice that can be    *)
(* nil (a call's Arguments) keeps whether it is: NilSlice.                  *)

Nil == [kind |-> "nil"]
IsNil(n) == n.kind = "nil"

Location(start, end) == [Start |-> start, End |-> end]
convertPosition(pos) == [Offset |-> pos.Offset, Line |-> pos.Line, Column |-> pos.Column]
locFrom(start, end) == Location(convertPosition(start), convertPosition(end))
tokenLocation(t) == locFrom(t.Start, t.End)
IsValid(loc) == loc.Start.Offset >= 0 /\ loc.End.Offset >= loc.Start.Offset

NilSlice == [isNil |-> TRUE, elems |-> <<>>]
SliceAppend(s, x) == [isNil |-> FALSE, elems |-> Append(s.elems, x)]

NewIdentifier(name, loc) == [kind |-> "Identifier", loc |-> loc, Name |-> name]
NewMemberExpression(object, property, computed, loc) ==
  [kind |-> "MemberExpression", loc |-> loc, Object |-> object,
   Property |-> property, Computed |-> computed]
NewCallExpression(callee, args, loc) ==
  [kind |-> "CallExpression", loc |-> loc, Callee |-> callee, Arguments |-> args]
NewNewExpression(callee, args, loc) ==
  [kind |-> "NewExpression", loc |-> loc, Callee |-> callee, Arguments |-> args]
NewSpreadElement(arg, loc) == [kind |-> "SpreadElement", loc |-> loc, Argument |-> arg]
NewObjectProperty(key, value, computed, shorthand, loc) ==
  [kind |-> "ObjectProperty", loc |-> loc, Key |-> key, Value |-> value,
   PropKind |-> "init", Computed |-> computed, Shorthand |-> shorthand,
   Method |-> FALSE]

\* BaseNode.SetLoc through Parser.setNodeLocation.
setNodeLocation(node, loc) == IF IsValid(loc) THEN [node EXCEPT !.loc = loc] ELSE node

extendNodeStart(node, start) ==
  IF start.Offset < 0 THEN node
  ELSE IF node.loc.Start.Offset > start.Offset
  THEN setNodeLocation(node, [node.loc EXCEPT !.Start = start])
  ELSE node

isAssignableOrNumber(expr) ==
  expr.kind \in {"Identifier", "MemberExpression", "NumberLiteral"}

isAssignable(expr) == expr.kind \in {"Identifier", "MemberExpression"}

RECURSIVE containsCallExpression(_)
containsCallExpression(expr) ==
  CASE expr.kind = "CallExpression" -> TRUE
    [] expr.kind = "MemberExpression" -> containsCallExpression(expr.Object)
    [] OTHER -> FALSE

----------------------------------------------------------------------------
(* Parser: state and token window *)

MaxErrors == 4   \* syntax errors kept in Parser.errors

lowest == 0
sequencePrec == 1
assignmentPrec == 2
conditionalPrec == 3
logicalOrPrec == 4
logicalAndPrec == 5
bitwiseOrPrec == 6
bitwiseXorPrec == 7
bitwiseAndPrec == 8
equalityPrec == 9
relationalPrec == 10
shiftPrec == 11
additivePrec == 12
multiplicativePrec == 13
prefixPrec == 14
postfixPrec == 15
callPrec == 16

AssignTokens ==
  {"ASSIGN", "PLUS_ASSIGN", "MINUS_ASSIGN", "MULTIPLY_ASSIGN", "DIVIDE_ASSIGN",
   "MODULO_ASSIGN", "SHIFT_LEFT_ASSIGN", "SHIFT_RIGHT_ASSIGN",
   "UNSIGNED_SHIFT_ASSIGN", "BITWISE_AND_ASSIGN", "BITWISE_OR_ASSIGN",
   "BITWISE_XOR_ASSIGN"}

precedences(tt) ==
  CASE tt = "COMMA" -> sequencePrec
    [] tt \in AssignTokens -> assignmentPrec
    [] tt = "QUESTION" -> conditionalPrec
    [] tt = "LOGICAL_OR" -> logicalOrPrec
    [] tt = "LOGICAL_AND" -> logicalAndPrec
    [] tt = "BITWISE_OR" -> bitwiseOrPrec
    [] tt = "BITWISE_XOR" -> bitwiseXorPrec
    [] tt = "BITWISE_AND" -> bitwiseAndPrec
    [] tt \in {"EQUAL", "NOT_EQUAL", "STRICT_EQUAL", "STRICT_NOT_EQUAL"} -> equalityPrec
    [] tt \in {"LESS_THAN", "LESS_EQUAL", "GREATER_THAN", "GREATER_EQUAL",
               "IN", "INSTANCEOF"} -> relationalPrec
    [] tt \in {"SHIFT_LEFT", "SHIFT_RIGHT", "UNSIGNED_SHIFT_RIGHT"} -> shiftPrec
    [] tt \in {"PLUS", "MINUS"} -> additivePrec
    [] tt \in {"MULTIPLY", "DIVIDE", "MODULO"} -> multiplicativePrec
    [] tt \in {"INCREMENT", "DECREMENT"} -> postfixPrec
    [] tt \in {"LPAREN", "LBRACKET", "DOT"} -> callPrec
    [] OTHER -> lowest

peekPrecedence(p) == precedences(p.peekToken.Type)
curPrecedence(p) == precedences(p.curToken.Type)

Parser_nextToken(p) ==
  LET r == NextToken(p.lex) IN
  [p EXCEPT !.curToken = p.peekToken, !.peekToken = r.tok, !.lex = r.l]

\* append(p.errors, ...); the list keeps its first MaxErrors entries.
addError(p, msg) ==
  IF Len(p.errors) < MaxErrors THEN [p EXCEPT !.errors = Append(@, msg)] ELSE p

peekError(p, tt) ==
  addError(p, <<"expected next token to be", tt, "got", p.peekToken.Type>>)

Parser_expectPeek(p, tt) ==
  IF p.peekToken.Type = tt THEN [p |-> nextToken(p), ok |-> TRUE]
  ELSE [p |-> peekError(p, tt), ok |-> FALSE]

noPrefixParseFnError(p, tt) == addError(p, <<"no prefix parse function for", tt>>)

ParserNew(src) ==
  nextToken(nextToken([lex |-> LexerNew(src), curToken |-> ZeroToken,
                       peekToken |-> ZeroToken, errors |-> <<>>,
                       panicked |-> FALSE, diverged |-> FALSE,
                       nilLeft |-> FALSE, allocs |-> 0]))

\* A parse rule's result: the parser after it and the node it returns.
R(p, e) == [p |-> p, e |-> e]

\* Every ast.New... call and every &ast.T{...} literal allocates a node.  The
\* parser counts its allocations and a node carries the number of its own as
\* its address (addr), which is what two Go pointers are compared by.
At(n, k) == [addr |-> k] @@ n
Alloc(p, n) == R([p EXCEPT !.allocs = @ + 1], At(n, p.allocs + 1))

\* A nil-pointer dereference is a Go panic, which unwinds ParseProgram: the
\* parser is marked and its token window is put at end of input, so that
\* every caller returns at once.
EndOfInput(l) ==
  LET end == Position(Len(l.src), l.nextPos.Line, l.nextPos.Column) IN
  [l EXCEPT !.ch = NUL, !.chPos = end, !.nextPos = end, !.buffer = <<>>,
            !.err = NoErr, !.continueTemplate = FALSE]
Panic(p) ==
  LET l == EndOfInput(p.lex)
      eof == Token("EOF", <<>>, l.chPos, l.chPos)
  IN R([p EXCEPT !.panicked = TRUE, !.lex = l, !.curToken = eof, !.peekToken = eof],
       Nil)

----------------------------------------------------------------------------
(* Expressions (Pratt parser) *)

PrefixTokens ==
  {"IDENT", "NUMBER", "STRING", "TRUE", "FALSE", "NULL", "LPAREN", "LOGICAL_NOT",
   "BITWISE_NOT", "MINUS", "PLUS", "INCREMENT", "DECREMENT", "LBRACKET", "LBRACE",
   "REGEXP", "THIS", "SUPER", "TYPEOF", "VOID", "DELETE", "NEW"}

BinaryTokens ==
  {"PLUS", "MINUS", "MULTIPLY", "DIVIDE", "EQUAL", "NOT_EQUAL", "STRICT_EQUAL",
   "STRICT_NOT_EQUAL", "LESS_THAN", "LESS_EQUAL", "GREATER_THAN", "GREATER_EQUAL",
   "IN", "INSTANCEOF", "SHIFT_LEFT", "SHIFT_RIGHT", "UNSIGNED_SHIFT_RIGHT",
   "BITWISE_AND", "BITWISE_OR", "BITWISE_XOR"}

InfixTokens ==
  BinaryTokens \cup AssignTokens \cup
  {"LPAREN", "DOT", "LBRACKET", "INCREMENT", "DECREMENT", "LOGICAL_AND",
   "LOGICAL_OR", "QUESTION", "COMMA"}

\* strconv.Unquote on a token's text, for the quoted forms the lexer hands
\* over: the named escapes and the quote's own escape are decoded; numeric
\* escapes do not occur in the sources drawn.
NamedEscapes == {"a", "b", "f", "n", "r", "t", "v", Backslash}
escapeValue(c) ==
  CASE c = "n" -> LF
    [] c = "r" -> CR
    [] c = "t" -> "\t"
    [] c = "f" -> "\f"
    [] c = "a" -> "<bel>"
    [] c = "b" -> "<bs>"
    [] c = "v" -> "<vt>"
    [] OTHER -> c
RECURSIVE unquoteChars(_, _, _)
unquoteChars(body, quote, acc) ==
  IF body = <<>> THEN [ok |-> TRUE, val |-> acc]
  ELSE IF Head(body) = quote \/ Head(body) = LF THEN [ok |-> FALSE, val |-> <<>>]
  ELSE IF Head(body) # Backslash
  THEN unquoteChars(Tail(body), quote, Append(acc, Head(body)))
  ELSE IF Len(body) < 2 THEN [ok |-> FALSE, val |-> <<>>]
  ELSE IF body[2] \in NamedEscapes \/ body[2] = quote
  THEN unquoteChars(SubSeq(body, 3, Len(body)), quote,
                    Append(acc, escapeValue(body[2])))
  ELSE [ok |-> FALSE, val |-> <<>>]

Unquote(s) ==
  IF Len(s) < 2 THEN [ok |-> FALSE, val |-> <<>>]
  ELSE IF s[1] # s[Len(s)] \/ s[1] \notin {"\"", "'"} THEN [ok |-> FALSE, val |-> <<>>]
  ELSE LET r == unquoteChars(SubSeq(s, 2, Len(s) - 1), s[1], <<>>) IN
       IF r.ok /\ s[1] = "'" /\ Len(r.val) # 1 THEN [ok |-> FALSE, val |-> <<>>]
       ELSE r

parseIdentifier(p) == Alloc(p, NewIdentifier(p.curToken.Literal, tokenLocation(p.curToken)))

parseNumberLiteral(p) ==
  Alloc(p, [kind |-> "NumberLiteral", loc |-> tokenLocation(p.curToken),
        Value |-> p.curToken.Literal])

Parser_parseStringLiteral(p) ==
  LET tok == p.curToken
      u == Unquote(tok.Literal)
  IN Alloc(IF u.ok THEN p ELSE addError(p, <<"invalid syntax">>),
       [kind |-> "StringLiteral", loc |-> tokenLocation(tok),
        Value |-> IF u.ok THEN u.val ELSE tok.Literal])

parseBooleanLiteral(p) ==
  Alloc(p, [kind |-> "BooleanLiteral", loc |-> tokenLocation(p.curToken),
        Value |-> p.curToken.Type = "TRUE"])

parseNullLiteral(p) == Alloc(p, [kind |-> "NullLiteral", loc |-> tokenLocation(p.curToken)])

parseThisExpression(p) ==
  Alloc(p, [kind |-> "ThisExpression", loc |-> tokenLocation(p.curToken)])

parseSuperExpression(p) == Alloc(p, [kind |-> "Super", loc |-> tokenLocation(p.curToken)])

\* strings.LastIndex(lit, "/"), counted from 0; -1 when there is none.
RECURSIVE lastSlash(_, _)
lastSlash(lit, i) ==
  IF i = 0 THEN -1 ELSE IF lit[i] = "/" THEN i - 1 ELSE lastSlash(lit, i - 1)

parseRegExpLiteral(p) ==
  LET lit == p.curToken.Literal
      ls == lastSlash(lit, Len(lit))
      split == Len(lit) >= 2 /\ lit[1] = "/" /\ ls > 0
  IN Alloc(p, [kind |-> "RegExpLiteral", loc |-> tokenLocation(p.curToken),
           Pattern |-> IF split THEN SubSeq(lit, 2, ls) ELSE <<>>,
           Flags |-> IF split THEN SubSeq(lit, ls + 2, Len(lit)) ELSE <<>>])

\* wrapNewExpression mutates nodes through their pointers and compares
\* pointers.  Its result carries the node the returned pointer points at
\* (node), the node the argument pointer points at afterwards (self), and
\* whether the two pointers are the same (same).
Parser_wrapNewExpression(p, e, start) ==
  LET newStart == convertPosition(start)
      fresh(q, callee, args, self) ==
        LET n == Alloc(q, NewNewExpression(callee, args,
                                           Location(newStart, self.loc.End)))
        IN [p |-> n.p, node |-> n.e, self |-> self, same |-> FALSE]
      kept(q, self) == [p |-> q, node |-> self, self |-> self, same |-> TRUE]
  IN
  CASE e.kind = "CallExpression" ->
         IF e.Callee.kind = "CallExpression"
         THEN LET w == wrapNewExpression(p, e.Callee, start) IN
              IF ~w.same
              THEN kept(w.p, extendNodeStart([e EXCEPT !.Callee = w.node], newStart))
              ELSE fresh(w.p, w.self, e.Arguments, [e EXCEPT !.Callee = w.self])
         ELSE IF e.Callee.kind = "MemberExpression"
                 /\ containsCallExpression(e.Callee.Object)
         THEN LET w == wrapNewExpression(p, e.Callee, start) IN
              \* callee.Object was replaced exactly when the member arm
              \* returned callee itself
              IF w.same
              THEN kept(w.p, extendNodeStart(
                               [e EXCEPT !.Callee = extendNodeStart(w.self, newStart)],
                               newStart))
              ELSE fresh(w.p, w.self, e.Arguments, [e EXCEPT !.Callee = w.self])
         ELSE fresh(p, e.Callee, e.Arguments, e)
    [] e.kind = "MemberExpression" ->
         LET w == wrapNewExpression(p, e.Object, start) IN
         IF ~w.same
         THEN kept(w.p, extendNodeStart([e EXCEPT !.Object = w.node], newStart))
         ELSE LET e1 == [e EXCEPT !.Object = w.self] IN fresh(w.p, e1, NilSlice, e1)
    [] e.kind = "NewExpression" -> kept(p, extendNodeStart(e, newStart))
    [] OTHER -> fresh(p, e, NilSlice, e)

RECURSIVE infixLoop(_, _, _), prefixFn(_), infixFn(_, _),
          callArguments(_, _), sequenceRest(_, _), arrayElements(_, _),
          objectProperties(_, _)

Parser_parseExpression(p, pre) ==
  IF p.curToken.Type \notin PrefixTokens
  THEN R(noPrefixParseFnError(p, p.curToken.Type), Nil)
  ELSE LET l == prefixFn(p) IN infixLoop(l.p, l.e, pre)

\* the for loop of parseExpression
infixLoop(p, leftExp, pre) ==
  IF p.peekToken.Type # "SEMICOLON" /\ pre < peekPrecedence(p)
  THEN IF p.peekToken.Type \notin InfixTokens THEN R(p, leftExp)
       ELSE LET r == infixFn(nextToken(p), leftExp) IN infixLoop(r.p, r.e, pre)
  ELSE R(p, leftExp)

\* p.prefixFns[p.curToken.Type]()
prefixFn(p) ==
  LET tt == p.curToken.Type IN
  CASE tt = "IDENT" -> parseIdentifier(p)
    [] tt = "NUMBER" -> parseNumberLiteral(p)
    [] tt = "STRING" -> parseStringLiteral(p)
    [] tt \in {"TRUE", "FALSE"} -> parseBooleanLiteral(p)
    [] tt = "NULL" -> parseNullLiteral(p)
    [] tt = "LPAREN" -> parseGroupedExpression(p)
    [] tt \in {"LOGICAL_NOT", "BITWISE_NOT", "MINUS", "PLUS", "INCREMENT",
               "DECREMENT", "TYPEOF", "VOID", "DELETE"} -> parsePrefixExpression(p)
    [] tt = "LBRACKET" -> parseArrayLiteral(p)
    [] tt = "LBRACE" -> parseObjectLiteral(p)
    [] tt = "REGEXP" -> parseRegExpLiteral(p)
    [] tt = "THIS" -> parseThisExpression(p)
    [] tt = "SUPER" -> parseSuperExpression(p)
    [] tt = "NEW" -> parseNewExpression(p)

\* p.infixFns[p.curToken.Type](left); nilLeft records that a rule was
\* entered with a nil left operand.
infixFn(p0, left) ==
  LET tt == p0.curToken.Type
      p == IF IsNil(left) THEN [p0 EXCEPT !.nilLeft = TRUE] ELSE p0
  IN
  CASE tt \in BinaryTokens -> parseInfixExpression(p, left)
    [] tt \in AssignTokens -> parseAssignmentExpression(p, left)
    [] tt = "LPAREN" -> parseCallExpression(p, left)
    [] tt = "DOT" -> parseMemberExpression(p, left)
    [] tt = "LBRACKET" -> parseComputedMemberExpression(p, left)
    [] tt \in {"INCREMENT", "DECREMENT"} -> parsePostfixExpression(p, left)
    [] tt \in {"LOGICAL_AND", "LOGICAL_OR"} -> parseLogicalExpression(p, left)
    [] tt = "QUESTION" -> parseConditionalExpression(p, left)
    [] tt = "COMMA" -> parseSequenceExpression(p, left)

Parser_parseGroupedExpression(p) ==
  LET start == p.curToken.Start
      r == parseExpression(nextToken(p), lowest)
  IN IF IsNil(r.e) THEN R(r.p, Nil)
     ELSE LET x == expectPeek(r.p, "RPAREN") IN
          IF ~x.ok THEN R(x.p, Nil)
          ELSE R(x.p, setNodeLocation(r.e,
                   Location(convertPosition(start), convertPosition(x.p.curToken.End))))

Parser_parsePrefixExpression(p) ==
  LET tok == p.curToken
      r == parseExpression(nextToken(p), prefixPrec)
  IN IF IsNil(r.e) THEN R(r.p, Nil)
     ELSE LET loc == Location(convertPosition(tok.Start), r.e.loc.End) IN
          IF tok.Type \in {"INCREMENT", "DECREMENT"}
          THEN IF ~isAssignable(r.e)
               THEN R(addError(r.p, <<"invalid update target">>), Nil)
               ELSE Alloc(r.p, [kind |-> "UpdateExpression", loc |-> loc,
                            Operator |-> tok.Literal, Argument |-> r.e, Prefix |-> TRUE])
          ELSE Alloc(r.p, [kind |-> "UnaryExpression", loc |-> loc,
                       Operator |-> tok.Literal, Argument |-> r.e, Prefix |-> TRUE])

\* left.Loc() on a nil left operand panics.
Parser_parseInfixExpression(p, left) ==
  LET operator == p.curToken.Literal
      r == parseExpression(nextToken(p), curPrecedence(p))
  IN IF IsNil(r.e) THEN R(r.p, Nil)
     ELSE IF IsNil(left) THEN Panic(r.p)
     ELSE Alloc(r.p, [kind |-> "BinaryExpression",
                  loc |-> Location(left.loc.Start, r.e.loc.End),
                  Operator |-> operator, Left |-> left, Right |-> r.e])

Parser_parseLogicalExpression(p, left) ==
  LET operator == p.curToken.Literal
      r == parseExpression(nextToken(p), curPrecedence(p))
  IN IF IsNil(r.e) THEN R(r.p, Nil)
     ELSE IF IsNil(left) THEN Panic(r.p)
     ELSE Alloc(r.p, [kind |-> "LogicalExpression",
                  loc |-> Location(left.loc.Start, r.e.loc.End),
                  Operator |-> operator, Left |-> left, Right |-> r.e])

parseAssignmentExpressionLeftFirst(p, left) ==
  IF ~isAssignable(left) THEN R(addError(p, <<"invalid assignment target">>), Nil)
  ELSE LET r == parseExpression(nextToken(p), curPrecedence(p)) IN
       IF IsNil(r.e) THEN R(r.p, Nil)
       ELSE Alloc(r.p, [kind |-> "AssignmentExpression",
                        loc |-> Location(left.loc.Start, r.e.loc.End),
                        Operator |-> p.curToken.Literal, Left |-> left, Right |-> r.e])

Parser_parseAssignmentExpression(p, left) ==
  IF ~isAssignable(left) THEN R(addError(p, <<"invalid assignment target">>), Nil)
  ELSE LET operator == p.curToken.Literal
           r == parseExpression(nextToken(p), curPrecedence(p) - 1)
       IN IF IsNil(r.e) THEN R(r.p, Nil)
          ELSE Alloc(r.p, [kind |-> "AssignmentExpression",
                       loc |-> Location(left.loc.Start, r.e.loc.End),
                       Operator |-> operator, Left |-> left, Right |-> r.e])

Parser_parsePostfixExpression(p, left) ==
  IF ~isAssignable(left) THEN R(addError(p, <<"invalid update target">>), Nil)
  ELSE Alloc(p, [kind |-> "UpdateExpression",
             loc |-> Location(left.loc.Start, convertPosition(p.curToken.End)),
             Operator |-> p.curToken.Literal, Argument |-> left, Prefix |-> FALSE])

Parser_parseNewExpression(p0) ==
  LET newTok == p0.curToken
      p == nextToken(p0)
  IN IF p.curToken.Type = "DOT"
     THEN LET x == expectPeek(p, "IDENT")
              identTok == x.p.curToken
          IN IF ~x.ok THEN R(x.p, Nil)
             ELSE IF identTok.Literal # <<"t", "a", "r", "g", "e", "t">>
             THEN R(addError(x.p, <<"expected target after new">>), Nil)
             ELSE LET meta == Alloc(x.p, NewIdentifier(<<"n", "e", "w">>,
                                               locFrom(newTok.Start, newTok.End)))
                      property == Alloc(meta.p, NewIdentifier(identTok.Literal,
                                                          tokenLocation(identTok)))
                  IN Alloc(property.p,
                           [kind |-> "MetaProperty",
                            loc |-> locFrom(newTok.Start, identTok.End),
                            Meta |-> meta.e, Property |-> property.e])
     ELSE LET r == parseExpression(p, postfixPrec) IN
          IF IsNil(r.e) THEN R(r.p, Nil)
          ELSE LET w == wrapNewExpression(r.p, r.e, newTok.Start) IN R(w.p, w.node)

Parser_parseConditionalExpression(p, test) ==
  IF IsNil(test) THEN Panic(p)
  ELSE
  LET c == parseExpression(nextToken(p), lowest) IN
  IF IsNil(c.e) THEN R(c.p, Nil)
  ELSE LET x == expectPeek(c.p, "COLON") IN
       IF ~x.ok THEN R(x.p, Nil)
       ELSE LET a == parseExpression(nextToken(x.p), conditionalPrec - 1) IN
            IF IsNil(a.e) THEN R(a.p, Nil)
            ELSE Alloc(a.p, [kind |-> "ConditionalExpression",
                         loc |-> Location(test.loc.Start, a.e.loc.End),
                         Test |-> test, Consequent |-> c.e, Alternate |-> a.e])

\* the argument loop of parseCallExpression, entered on the first argument
callArguments(p, args) ==
  LET r == parseExpression(p, sequencePrec) IN
  IF IsNil(r.e) THEN [p |-> r.p, xs |-> args, ok |-> FALSE]
  ELSE IF r.p.peekToken.Type # "COMMA"
  THEN [p |-> r.p, xs |-> SliceAppend(args, r.e), ok |-> TRUE]
  ELSE callArguments(nextToken(nextToken(r.p)), SliceAppend(args, r.e))

Parser_parseCallExpression(p0, callee) ==
  IF IsNil(callee) THEN Panic(p0)
  ELSE
  LET p == nextToken(p0)
      done(q, args) ==
        Alloc(q, NewCallExpression(callee, args,
                               Location(callee.loc.Start, convertPosition(q.curToken.End))))
  IN IF p.curToken.Type = "RPAREN" THEN done(p, NilSlice)
     ELSE LET a == callArguments(p, NilSlice) IN
          IF ~a.ok THEN R(a.p, Nil)
          ELSE LET x == expectPeek(a.p, "RPAREN") IN
               IF ~x.ok THEN R(addError(x.p, <<"unterminated call expression">>), Nil)
               ELSE done(x.p, a.xs)

Parser_parseMemberExpression(p, object) ==
  IF IsNil(object) THEN Panic(p)
  ELSE
  LET x == expectPeek(p, "IDENT") IN
  IF ~x.ok THEN R(x.p, Nil)
  ELSE LET property == Alloc(x.p, NewIdentifier(x.p.curToken.Literal,
                                                tokenLocation(x.p.curToken)))
       IN Alloc(property.p,
                NewMemberExpression(object, property.e, FALSE,
                                    Location(object.loc.Start, property.e.loc.End)))

Parser_parseComputedMemberExpression(p, object) ==
  IF IsNil(object) THEN Panic(p)
  ELSE
  LET r == parseExpression(nextToken(p), lowest) IN
  IF IsNil(r.e) THEN R(r.p, Nil)
  ELSE LET x == expectPeek(r.p, "RBRACKET") IN
       IF ~x.ok
       THEN R(addError(x.p, <<"unterminated computed member expression">>), Nil)
       ELSE Alloc(x.p, NewMemberExpression(object, r.e, TRUE,
                     Location(object.loc.Start, convertPosition(x.p.curToken.End))))

\* the for loop of parseSequenceExpression
sequenceRest(p, expressions) ==
  LET r == parseExpression(nextToken(p), sequencePrec - 1) IN
  IF IsNil(r.e) THEN [p |-> r.p, xs |-> expressions, ok |-> FALSE]
  ELSE LET xs == IF r.e.kind = "SequenceExpression"
                 THEN expressions \o r.e.Expressions
                 ELSE Append(expressions, r.e)
       IN IF r.p.peekToken.Type # "COMMA" THEN [p |-> r.p, xs |-> xs, ok |-> TRUE]
          ELSE sequenceRest(nextToken(r.p), xs)

Parser_parseSequenceExpression(p, left) ==
  IF IsNil(left) THEN Panic(p)
  ELSE
  LET s == sequenceRest(p, <<left>>) IN
  IF ~s.ok THEN R(s.p, Nil)
  ELSE Alloc(s.p, [kind |-> "SequenceExpression",
               loc |-> Location(left.loc.Start, s.xs[Len(s.xs)].loc.End),
               Expressions |-> s.xs])

\* the for loop of parseArrayLiteral; a hole is a nil element
arrayElements(p, elements) ==
  IF p.curToken.Type \in {"RBRACKET", "EOF"} THEN [p |-> p, xs |-> elements, ok |-> TRUE]
  ELSE IF p.curToken.Type = "COMMA"
  THEN arrayElements(nextToken(p), Append(elements, Nil))
  ELSE
  LET spread == p.curToken.Type = "ELLIPSIS"
      a == parseExpression(IF spread THEN nextToken(p) ELSE p, sequencePrec)
      r == IF spread /\ ~IsNil(a.e)
           THEN Alloc(a.p, NewSpreadElement(a.e, locFrom(p.curToken.Start,
                                                        a.p.curToken.End)))
           ELSE a
      xs == Append(elements, r.e)
  IN IF IsNil(r.e) THEN [p |-> r.p, xs |-> elements, ok |-> FALSE]
     ELSE IF r.p.peekToken.Type = "COMMA"
     THEN LET q == nextToken(r.p) IN
          IF q.peekToken.Type = "RBRACKET"
          THEN [p |-> nextToken(q), xs |-> Append(xs, Nil), ok |-> TRUE]
          ELSE arrayElements(nextToken(q), xs)
     ELSE arrayElements(nextToken(r.p), xs)

Parser_parseArrayLiteral(p) ==
  LET start == p.curToken.Start
      a == IF p.peekToken.Type = "RBRACKET"
           THEN [p |-> nextToken(p), xs |-> <<>>, ok |-> TRUE]
           ELSE arrayElements(nextToken(p), <<>>)
  IN IF ~a.ok THEN R(a.p, Nil)
     ELSE IF a.p.curToken.Type # "RBRACKET"
     THEN R(addError(a.p, <<"unterminated array literal">>), Nil)
     ELSE Alloc(a.p, [kind |-> "ArrayLiteral", loc |-> locFrom(start, a.p.curToken.End),
                  Elements |-> a.xs])

\* The result of parseObjectProperty is a node or nil.
Parser_parseObjectProperty(p) ==
  LET start == p.curToken.Start
      tt == p.curToken.Type
      \* the part after the key; q is the parser on the key's last token
      rest(q, key, computed) ==
        IF ~computed /\ key.kind = "Identifier"
           /\ q.peekToken.Type \in {"COMMA", "RBRACE"}
        THEN Alloc(q, NewObjectProperty(key, key, FALSE, TRUE, locFrom(start, q.curToken.End)))
        ELSE LET x == expectPeek(q, "COLON") IN
             IF ~x.ok THEN R(x.p, Nil)
             ELSE LET v == parseExpression(nextToken(x.p), sequencePrec) IN
                  IF IsNil(v.e) THEN R(v.p, Nil)
                  ELSE Alloc(v.p, NewObjectProperty(key, v.e, computed, FALSE,
                                                locFrom(start, v.p.curToken.End)))
  IN
  CASE tt = "ELLIPSIS" ->
         LET r == parseExpression(nextToken(p), lowest) IN
         IF IsNil(r.e) THEN R(r.p, Nil)
         ELSE Alloc(r.p, NewSpreadElement(r.e, locFrom(start, r.p.curToken.End)))
    [] tt = "IDENT" -> rest(p, parseIdentifier(p).e, FALSE)
    [] tt = "STRING" -> LET k == parseStringLiteral(p) IN rest(k.p, k.e, FALSE)
    [] tt = "NUMBER" -> rest(p, parseNumberLiteral(p).e, FALSE)
    [] tt = "LBRACKET" ->
         LET r == parseExpression(nextToken(p), lowest) IN
         IF IsNil(r.e) THEN R(r.p, Nil)
         ELSE LET x == expectPeek(r.p, "RBRACKET") IN
              IF ~x.ok THEN R(x.p, Nil) ELSE rest(x.p, r.e, TRUE)
    [] OTHER -> R(addError(p, <<"unexpected token", tt, "in object literal property">>), Nil)

\* the for loop of parseObjectLiteral
objectProperties(p, properties) ==
  IF p.curToken.Type \in {"RBRACE", "EOF"}
  THEN [p |-> p, xs |-> properties, ok |-> TRUE]
  ELSE
  LET spread == p.curToken.Type = "ELLIPSIS"
      a == parseExpression(nextToken(p), sequencePrec)
      r == IF spread
           THEN IF IsNil(a.e) THEN R(a.p, Nil)
                ELSE Alloc(a.p, NewSpreadElement(a.e, locFrom(p.curToken.Start,
                                                              a.p.curToken.End)))
           ELSE parseObjectProperty(p)
      xs == Append(properties, r.e)
  IN IF IsNil(r.e) THEN [p |-> r.p, xs |-> properties, ok |-> FALSE]
     ELSE IF r.p.peekToken.Type = "COMMA"
     THEN LET q == nextToken(r.p) IN
          IF q.peekToken.Type = "RBRACE"
          THEN [p |-> nextToken(q), xs |-> xs, ok |-> TRUE]
          ELSE objectProperties(nextToken(q), xs)
     ELSE objectProperties(nextToken(r.p), xs)

Parser_parseObjectLiteral(p) ==
  LET start == p.curToken.Start
      o == IF p.peekToken.Type = "RBRACE"
           THEN [p |-> nextToken(p), xs |-> <<>>, ok |-> TRUE]
           ELSE objectProperties(nextToken(p), <<>>)
  IN IF ~o.ok THEN R(o.p, Nil)
     ELSE IF o.p.curToken.Type # "RBRACE"
     THEN R(addError(o.p, <<"unterminated object literal">>), Nil)
     ELSE Alloc(o.p, [kind |-> "ObjectLiteral", loc |-> locFrom(start, o.p.curToken.End),
                  Properties |-> o.xs])

----------------------------------------------------------------------------
(* Statements *)

\* Statement forms whose rules are not part of this model (do, for, switch,
\* with, try); the sources drawn stay clear of them, and a rule reached on
\* one of them has no value.
OtherStatementTokens == {"DO", "FOR", "WITH"}

\* A loop that repeats with the lexer and the token window unchanged never
\* ends.  The parser is marked and, as for a panic, its window is put at end
\* of input so that the enclosing rules can be evaluated.
Diverge(p) == [Panic(p).p EXCEPT !.panicked = p.panicked, !.diverged = TRUE]
SameWindow(p, q) ==
  p.lex = q.lex /\ p.curToken = q.curToken /\ p.peekToken = q.peekToken

RECURSIVE blockBody(_, _)

Parser_parseEmptyStatement(p) ==
  Alloc(p, [kind |-> "EmptyStatement", loc |-> tokenLocation(p.curToken)])

NewRestElement(argument, loc) ==
  [kind |-> "RestElement", loc |-> loc, Argument |-> argument]
NewAssignmentPattern(left, right, loc) ==
  [kind |-> "AssignmentPattern", loc |-> loc, Left |-> left, Right |-> right]
NewArrayPattern(elements, rest, loc) ==
  [kind |-> "ArrayPattern", loc |-> loc, Elements |-> elements, Rest |-> rest]
NewObjectPatternProperty(key, value, computed, shorthand, loc) ==
  [kind |-> "ObjectPatternProperty", loc |-> loc, Key |-> key, Value |-> value,
   Computed |-> computed, Shorthand |-> shorthand]
NewObjectPattern(props, rest, loc) ==
  [kind |-> "ObjectPattern", loc |-> loc, Properties |-> props, Rest |-> rest]
NewFunctionDeclaration(id, params, body, generator, loc) ==
  [kind |-> "FunctionDeclaration", loc |-> loc, ID |-> id, Params |-> params,
   Body |-> body, Generator |-> generator]

Parser_parseBindingPrimary(p) ==
  LET tt == p.curToken.Type IN
  CASE tt = "IDENT" -> parseIdentifier(p)
    [] tt = "LBRACKET" -> parseArrayPattern(p)
    [] tt = "LBRACE" -> parseObjectPattern(p)
    [] OTHER -> R(addError(p, <<"unsupported binding pattern starting with", tt>>), Nil)

Parser_parseBindingElement(p, allowDefault) ==
  LET start == p.curToken.Start
      primary == parseBindingPrimary(p)
  IN IF IsNil(primary.e) THEN primary
     ELSE IF allowDefault /\ primary.p.peekToken.Type = "ASSIGN"
     THEN LET r == parseExpression(nextToken(nextToken(primary.p)), sequencePrec) IN
          IF IsNil(r.e) THEN R(r.p, Nil)
          ELSE Alloc(r.p, NewAssignmentPattern(primary.e, r.e,
                                               locFrom(start, r.p.curToken.End)))
     ELSE primary

\* What a loop over the members of a pattern or of a parameter list leaves:
\* the parser, the members, the rest element, and whether the rule goes on
\* (ok) or has returned nil.
Members(p, xs, rest, ok) == [p |-> p, xs |-> xs, rest |-> rest, ok |-> ok]

\* "..." and the binding after it, with the parser on the end of the binding
restElement(p) ==
  LET restStart == p.curToken.Start
      arg == parseBindingElement(nextToken(p), FALSE)
  IN IF IsNil(arg.e) THEN arg
     ELSE Alloc(arg.p, NewRestElement(arg.e, locFrom(restStart, arg.p.curToken.End)))

RECURSIVE arrayPatternElements(_, _, _), objectPatternProperties(_, _, _),
          functionParams(_, _, _)

arrayPatternRestAnywhere(p, elements, rest) ==
  IF p.curToken.Type \in {"RBRACKET", "EOF"} THEN Members(p, elements, rest, TRUE)
  ELSE IF p.curToken.Type = "COMMA"
  THEN arrayPatternElements(nextToken(p), elements, rest)
  ELSE LET isRest == p.curToken.Type = "ELLIPSIS"
           r == IF isRest THEN restElement(p) ELSE parseBindingElement(p, TRUE)
       IN IF IsNil(r.e) THEN Members(r.p, elements, rest, FALSE)
          ELSE arrayPatternElements(nextToken(r.p),
                                    IF isRest THEN elements ELSE Append(elements, r.e),
                                    IF isRest THEN r.e ELSE rest)

\* the for loop of parseArrayPattern; a hole is a nil element
arrayPatternElements(p, elements, rest) ==
  IF p.curToken.Type \in {"RBRACKET", "EOF"} THEN Members(p, elements, rest, TRUE)
  ELSE IF p.curToken.Type = "COMMA"
  THEN arrayPatternElements(nextToken(p), Append(elements, Nil), rest)
  ELSE IF p.curToken.Type = "ELLIPSIS"
  THEN IF ~IsNil(rest)
       THEN Members(addError(p, <<"duplicate rest element in array pattern">>),
                    elements, rest, FALSE)
       ELSE LET r == restElement(p) IN
            IF IsNil(r.e) THEN Members(r.p, elements, rest, FALSE)
            ELSE IF r.p.peekToken.Type # "RBRACKET"
            THEN Members(addError(r.p, <<"rest element must be last in array pattern">>),
                         elements, r.e, FALSE)
            ELSE Members(nextToken(r.p), elements, r.e, TRUE)
  ELSE LET elem == parseBindingElement(p, TRUE)
           xs == Append(elements, elem.e)
       IN IF IsNil(elem.e) THEN Members(elem.p, elements, rest, FALSE)
          ELSE IF elem.p.peekToken.Type = "COMMA"
          THEN LET q == nextToken(elem.p) IN
               IF q.peekToken.Type = "RBRACKET"
               THEN Members(nextToken(q), Append(xs, Nil), rest, TRUE)
               ELSE arrayPatternElements(nextToken(q), xs, rest)
          ELSE arrayPatternElements(nextToken(elem.p), xs, rest)

Parser_parseArrayPattern(p) ==
  LET start == p.curToken.Start
      m == IF p.peekToken.Type = "RBRACKET"
           THEN Members(nextToken(p), <<>>, Nil, TRUE)
           ELSE arrayPatternElements(nextToken(p), <<>>, Nil)
  IN IF ~m.ok THEN R(m.p, Nil)
     ELSE IF m.p.curToken.Type # "RBRACKET"
     THEN R(addError(m.p, <<"unterminated array pattern">>), Nil)
     ELSE Alloc(m.p, NewArrayPattern(m.xs, m.rest, locFrom(start, m.p.curToken.End)))

Parser_parseObjectPatternProperty(p) ==
  LET start == p.curToken.Start
      keyTok == p.curToken
      key == Alloc(p, NewIdentifier(keyTok.Literal, tokenLocation(keyTok)))
      basePattern == Alloc(key.p, NewIdentifier(keyTok.Literal, tokenLocation(keyTok)))
      q == basePattern.p
      done(z, value, shorthand) ==
        Alloc(z, NewObjectPatternProperty(key.e, value, FALSE, shorthand,
                                          locFrom(start, z.curToken.End)))
  IN IF keyTok.Type # "IDENT"
     THEN R(addError(p, <<"unsupported object pattern property starting with",
                          keyTok.Type>>), Nil)
     ELSE IF q.peekToken.Type = "COLON"
     THEN LET value == parseBindingElement(nextToken(nextToken(q)), TRUE) IN
          IF IsNil(value.e) THEN value ELSE done(value.p, value.e, FALSE)
     ELSE IF q.peekToken.Type = "ASSIGN"
     THEN LET right == parseExpression(nextToken(nextToken(q)), sequencePrec) IN
          IF IsNil(right.e) THEN right
          ELSE LET value == Alloc(right.p,
                                  NewAssignmentPattern(basePattern.e, right.e,
                                    locFrom(start, right.p.curToken.End)))
               IN done(value.p, value.e, TRUE)
     ELSE done(q, basePattern.e, TRUE)

\* the for loop of parseObjectPattern
objectPatternProperties(p, props, rest) ==
  IF p.curToken.Type \in {"RBRACE", "EOF"} THEN Members(p, props, rest, TRUE)
  ELSE IF p.curToken.Type = "ELLIPSIS"
  THEN IF ~IsNil(rest)
       THEN Members(addError(p, <<"duplicate rest element in object pattern">>),
                    props, rest, FALSE)
       ELSE LET r == restElement(p) IN
            IF IsNil(r.e) THEN Members(r.p, props, rest, FALSE)
            ELSE IF r.p.peekToken.Type # "RBRACE"
            THEN Members(addError(r.p, <<"rest element must be last in object pattern">>),
                         props, r.e, FALSE)
            ELSE Members(nextToken(r.p), props, r.e, TRUE)
  ELSE LET prop == parseObjectPatternProperty(p)
           xs == Append(props, prop.e)
       IN IF IsNil(prop.e) THEN Members(prop.p, props, rest, FALSE)
          ELSE IF prop.p.peekToken.Type = "COMMA"
          THEN LET q == nextToken(prop.p) IN
               IF q.peekToken.Type = "RBRACE"
               THEN Members(nextToken(q), xs, rest, TRUE)
               ELSE objectPatternProperties(nextToken(q), xs, rest)
          ELSE objectPatternProperties(nextToken(prop.p), xs, rest)

Parser_parseObjectPattern(p) ==
  LET start == p.curToken.Start
      m == IF p.peekToken.Type = "RBRACE"
           THEN Members(nextToken(p), <<>>, Nil, TRUE)
           ELSE objectPatternProperties(nextToken(p), <<>>, Nil)
  IN IF ~m.ok THEN R(m.p, Nil)
     ELSE IF m.p.curToken.Type # "RBRACE"
     THEN R(addError(m.p, <<"unterminated object pattern">>), Nil)
     ELSE Alloc(m.p, NewObjectPattern(m.xs, m.rest, locFrom(start, m.p.curToken.End)))

\* the for loop of parseFunctionParams; restSeen is its flag, kept in the
\* place of the rest element
functionParams(p, params, restSeen) ==
  IF p.curToken.Type \in {"RPAREN", "EOF"} THEN Members(p, params, restSeen, TRUE)
  ELSE IF restSeen
  THEN Members(addError(p, <<"parameters not allowed after rest element">>),
               params, restSeen, FALSE)
  ELSE IF p.curToken.Type = "ELLIPSIS"
  THEN LET r == restElement(p)
           x == expectPeek(r.p, "RPAREN")
       IN IF IsNil(r.e) THEN Members(r.p, params, restSeen, FALSE)
          ELSE Members(x.p, Append(params, r.e), TRUE, x.ok)
  ELSE LET param == parseBindingElement(p, TRUE)
           xs == Append(params, param.e)
       IN IF IsNil(param.e) THEN Members(param.p, params, restSeen, FALSE)
          ELSE IF param.p.peekToken.Type = "COMMA"
          THEN LET q == nextToken(param.p) IN
               IF q.peekToken.Type = "RPAREN"
               THEN Members(addError(q, <<"trailing comma without parameter">>),
                            xs, restSeen, FALSE)
               ELSE functionParams(nextToken(q), xs, restSeen)
          ELSE IF param.p.peekToken.Type = "RPAREN"
          THEN Members(nextToken(param.p), xs, restSeen, TRUE)
          ELSE Members(addError(param.p, <<"unexpected token in parameter list">>),
                       xs, restSeen, FALSE)

Parser_parseFunctionParams(p) ==
  IF p.peekToken.Type = "RPAREN" THEN Members(nextToken(p), <<>>, FALSE, TRUE)
  ELSE functionParams(nextToken(p), <<>>, FALSE)

Parser_parseFunctionDeclaration(p) ==
  LET start == p.curToken.Start
      isGenerator == p.peekToken.Type = "MULTIPLY"
      x == expectPeek(IF isGenerator THEN nextToken(p) ELSE p, "IDENT")
      id == Alloc(x.p, NewIdentifier(x.p.curToken.Literal, tokenLocation(x.p.curToken)))
      y == expectPeek(id.p, "LPAREN")
      params == parseFunctionParams(y.p)
      z == expectPeek(params.p, "LBRACE")
      body == parseBlockStatement(z.p)
  IN IF ~x.ok THEN R(x.p, Nil)
     ELSE IF ~y.ok THEN R(y.p, Nil)
     ELSE IF ~params.ok THEN R(params.p, Nil)
     ELSE IF ~z.ok THEN R(z.p, Nil)
     ELSE IF IsNil(body.e) THEN body
     ELSE Alloc(body.p, NewFunctionDeclaration(id.e, params.xs, body.e, isGenerator,
                                               locFrom(start, body.p.curToken.End)))

Parser_parseVariableDeclarator(p) ==
  LET start == p.curToken.Start
      pattern == parseBindingElement(p, FALSE)
      q == pattern.p
      hasInit == q.peekToken.Type = "ASSIGN"
      init == parseExpression(nextToken(nextToken(q)), lowest)
      done(z, e) == Alloc(z, [kind |-> "VariableDeclarator",
                          loc |-> locFrom(start, z.curToken.End),
                          ID |-> pattern.e, Init |-> e])
  IN IF IsNil(pattern.e) THEN R(q, Nil)
     ELSE IF ~hasInit THEN done(q, Nil)
     ELSE IF IsNil(init.e) THEN R(init.p, Nil)
     ELSE done(init.p, init.e)

\* the for loop of parseVariableStatement
RECURSIVE variableDeclarators(_, _)
variableDeclarators(p, declarators) ==
  IF p.curToken.Type = "SEMICOLON"
  THEN [p |-> addError(p, <<"missing binding in variable declaration">>),
        xs |-> declarators, ok |-> FALSE]
  ELSE LET d == parseVariableDeclarator(p) IN
       IF IsNil(d.e) THEN [p |-> d.p, xs |-> declarators, ok |-> FALSE]
       ELSE IF d.p.peekToken.Type # "COMMA"
       THEN [p |-> d.p, xs |-> Append(declarators, d.e), ok |-> TRUE]
       ELSE variableDeclarators(nextToken(nextToken(d.p)), Append(declarators, d.e))

Parser_parseVariableStatement(p) ==
  LET declKind == CASE p.curToken.Type = "CONST" -> "const"
                    [] p.curToken.Type = "LET" -> "let"
                    [] OTHER -> "var"
      start == p.curToken.Start
      d == variableDeclarators(nextToken(p), <<>>)
      semi == d.p.peekToken.Type = "SEMICOLON"
      q == IF semi THEN nextToken(d.p) ELSE d.p
  IN IF ~d.ok THEN R(d.p, Nil)
     ELSE Alloc(q, [kind |-> "VariableDeclaration", loc |-> locFrom(start, q.curToken.End),
                Kind |-> declKind, Declarations |-> d.xs])

Parser_parseExpressionStatement(p) ==
  LET r == parseExpression(p, lowest) IN
  IF IsNil(r.e) THEN R(r.p, Nil)
  ELSE Alloc(IF r.p.peekToken.Type = "SEMICOLON" THEN nextToken(r.p) ELSE r.p,
         [kind |-> "ExpressionStatement", loc |-> r.e.loc, Expression |-> r.e])

Parser_parseReturnStatement(p) ==
  LET start == p.curToken.Start IN
  IF p.peekToken.Type = "SEMICOLON"
  THEN LET q == nextToken(p) IN
       Alloc(q, [kind |-> "ReturnStatement", loc |-> locFrom(start, q.curToken.End),
             Argument |-> Nil])
  ELSE IF p.peekToken.Type \in {"RBRACE", "EOF"}
  THEN Alloc(p, [kind |-> "ReturnStatement", loc |-> locFrom(start, p.curToken.End),
             Argument |-> Nil])
  ELSE LET r == parseExpression(nextToken(p), lowest)
           semi == r.p.peekToken.Type = "SEMICOLON"
           q == IF semi THEN nextToken(r.p) ELSE r.p
       IN IF IsNil(r.e) THEN R(r.p, Nil)
          ELSE Alloc(q, [kind |-> "ReturnStatement",
                     loc |-> Location(convertPosition(start),
                                      IF semi THEN convertPosition(q.curToken.End)
                                      ELSE r.e.loc.End),
                     Argument |-> r.e])

\* parseThrowStatement without its look at the line of the next token
parseThrowStatementOnAnyLine(p) ==
  LET start == p.curToken.Start
      r == parseExpression(nextToken(p), lowest)
      semi == r.p.peekToken.Type = "SEMICOLON"
      q == IF semi THEN nextToken(r.p) ELSE r.p
  IN IF IsNil(r.e) THEN R(r.p, Nil)
     ELSE Alloc(q, [kind |-> "ThrowStatement",
                loc |-> Location(convertPosition(start),
                                 IF semi THEN convertPosition(q.curToken.End)
                                 ELSE r.e.loc.End),
                Argument |-> r.e])

Parser_parseThrowStatement(p) ==
  LET start == p.curToken.Start IN
  IF p.peekToken.Start.Line # p.curToken.End.Line
  THEN R(addError(p, <<"illegal newline after throw">>), Nil)
  ELSE LET r == parseExpression(nextToken(p), lowest)
           semi == r.p.peekToken.Type = "SEMICOLON"
           q == IF semi THEN nextToken(r.p) ELSE r.p
       IN IF IsNil(r.e) THEN R(r.p, Nil)
          ELSE Alloc(q, [kind |-> "ThrowStatement",
                     loc |-> Location(convertPosition(start),
                                      IF semi THEN convertPosition(q.curToken.End)
                                      ELSE r.e.loc.End),
                     Argument |-> r.e])

\* parseJumpStatement taking an identifier for the label on whatever line
jumpStatementLabelOnAnyLine(p, nodeKind) ==
  LET start == p.curToken.Start
      labelled == p.peekToken.Type = "IDENT"
      q0 == IF labelled THEN nextToken(p) ELSE p
      label == IF labelled
               THEN Alloc(q0, NewIdentifier(q0.curToken.Literal,
                                            tokenLocation(q0.curToken)))
               ELSE R(q0, Nil)
      q == label.p
      semi == q.peekToken.Type = "SEMICOLON"
      z == IF semi THEN nextToken(q) ELSE q
  IN Alloc(z, [kind |-> nodeKind, loc |-> locFrom(start, z.curToken.End),
               Label |-> label.e])

\* parseBreakStatement and parseContinueStatement, which differ in the node
\* they build only.
parseJumpStatement(p, nodeKind) ==
  LET start == p.curToken.Start
      labelled == p.peekToken.Type = "IDENT"
                  /\ p.peekToken.Start.Line = p.curToken.End.Line
      q0 == IF labelled THEN nextToken(p) ELSE p
      label == IF labelled
               THEN Alloc(q0, NewIdentifier(q0.curToken.Literal,
                                            tokenLocation(q0.curToken)))
               ELSE R(q0, Nil)
      q == label.p
      semi == q.peekToken.Type = "SEMICOLON"
      z == IF semi THEN nextToken(q) ELSE q
  IN Alloc(z, [kind |-> nodeKind, loc |-> locFrom(start, z.curToken.End),
               Label |-> label.e])

Parser_parseBreakStatement(p) == parseJumpStatement(p, "BreakStatement")
Parser_parseContinueStatement(p) == parseJumpStatement(p, "ContinueStatement")

Parser_parseDebuggerStatement(p) ==
  LET q == IF p.peekToken.Type = "SEMICOLON" THEN nextToken(p) ELSE p IN
  Alloc(q, [kind |-> "DebuggerStatement", loc |-> locFrom(p.curToken.Start, q.curToken.End)])

\* the for loop of parseBlockStatement
blockBody(p, stmts) ==
  IF p.curToken.Type \in {"RBRACE", "EOF"} THEN [p |-> p, xs |-> stmts]
  ELSE LET s == parseStatement(p)
           q == nextToken(s.p)
           xs == IF IsNil(s.e) THEN stmts ELSE Append(stmts, s.e)
       IN IF SameWindow(p, q) THEN [p |-> Diverge(q), xs |-> xs]
          ELSE blockBody(q, xs)

Parser_parseBlockStatement(p) ==
  LET start == p.curToken.Start
      b == blockBody(nextToken(p), <<>>)
  IN IF b.p.curToken.Type # "RBRACE"
     THEN R(addError(b.p, <<"unterminated block statement">>), Nil)
     ELSE Alloc(b.p, [kind |-> "BlockStatement", loc |-> locFrom(start, b.p.curToken.End),
                  Body |-> b.xs])

\* "if (" test ")" and "while (" test ")": the parser on ")" and the test.
parenthesisedTest(p) ==
  LET x == expectPeek(p, "LPAREN") IN
  IF ~x.ok THEN R(x.p, Nil)
  ELSE LET t == parseExpression(nextToken(x.p), lowest) IN
       IF IsNil(t.e) THEN R(t.p, Nil)
       ELSE LET y == expectPeek(t.p, "RPAREN") IN
            IF ~y.ok THEN R(y.p, Nil) ELSE R(y.p, t.e)

Parser_parseIfStatement(p) ==
  LET start == p.curToken.Start
      t == parenthesisedTest(p)
  IN IF IsNil(t.e) THEN t
     ELSE LET c == parseStatement(nextToken(t.p)) IN
          IF IsNil(c.e) THEN R(c.p, Nil)
          ELSE IF c.p.peekToken.Type = "ELSE"
          THEN LET a == parseStatement(nextToken(nextToken(c.p))) IN
               IF IsNil(a.e) THEN R(a.p, Nil)
               ELSE Alloc(a.p, [kind |-> "IfStatement",
                            loc |-> Location(convertPosition(start), a.e.loc.End),
                            Test |-> t.e, Consequent |-> c.e, Alternate |-> a.e])
          ELSE Alloc(c.p, [kind |-> "IfStatement",
                       loc |-> Location(convertPosition(start), c.e.loc.End),
                       Test |-> t.e, Consequent |-> c.e, Alternate |-> Nil])

Parser_parseWhileStatement(p) ==
  LET start == p.curToken.Start
      t == parenthesisedTest(p)
  IN IF IsNil(t.e) THEN t
     ELSE LET b == parseStatement(nextToken(t.p)) IN
          IF IsNil(b.e) THEN R(b.p, Nil)
          ELSE Alloc(b.p, [kind |-> "WhileStatement",
                       loc |-> Location(convertPosition(start), b.e.loc.End),
                       Test |-> t.e, Body |-> b.e])

Parser_parseLabeledStatement(p) ==
  LET start == p.curToken.Start
      label == Alloc(p, NewIdentifier(p.curToken.Literal, tokenLocation(p.curToken)))
      x == expectPeek(label.p, "COLON")
  IN IF ~x.ok THEN R(x.p, Nil)
     ELSE LET b == parseStatement(nextToken(x.p)) IN
          IF IsNil(b.e) THEN R(b.p, Nil)
          ELSE Alloc(b.p, [kind |-> "LabeledStatement",
                       loc |-> Location(convertPosition(start), b.e.loc.End),
                       Label |-> label.e, Body |-> b.e])

\* a clause that loses its statements
NewSwitchCaseWithoutBody(test, consequent, loc) ==
  [kind |-> "SwitchCase", loc |-> loc, Test |-> test, Consequent |-> <<>>]
NewSwitchCase(test, consequent, loc) ==
  [kind |-> "SwitchCase", loc |-> loc, Test |-> test, Consequent |-> consequent]
NewSwitchStatement(discriminant, cases, loc) ==
  [kind |-> "SwitchStatement", loc |-> loc, Discriminant |-> discriminant,
   Cases |-> cases]
NewTryStatement(block, handler, finalizer, loc) ==
  [kind |-> "TryStatement", loc |-> loc, Block |-> block, Handler |-> handler,
   Finalizer |-> finalizer]
NewCatchClause(param, body, loc) ==
  [kind |-> "CatchClause", loc |-> loc, Param |-> param, Body |-> body]

\* what the loops of parseSwitchStatement hand back: the parser, the list
\* built so far, the end of the clause and whether the loop ran to its end
Clauses(p, xs, end, ok) == [p |-> p, xs |-> xs, end |-> end, ok |-> ok]

\* the inner for loop of parseSwitchStatement: the statements of one clause
Parser_switchConsequent(p, consequent, end) ==
  IF p.curToken.Type \in {"CASE", "DEFAULT", "RBRACE", "EOF"}
  THEN Clauses(p, consequent, end, TRUE)
  ELSE LET stmt == parseStatement(p)
           q == nextToken(stmt.p)
       IN IF IsNil(stmt.e) THEN Clauses(stmt.p, consequent, end, FALSE)
          ELSE IF SameWindow(p, q) THEN Clauses(Diverge(q), consequent, end, FALSE)
          ELSE switchConsequent(q, Append(consequent, stmt.e),
                                Position(stmt.e.loc.End.Offset, stmt.e.loc.End.Line,
                                         stmt.e.loc.End.Column))

\* the outer for loop of parseSwitchStatement: one clause per iteration
Parser_switchCases(p, cases, seenDefault) ==
  IF p.curToken.Type \in {"RBRACE", "EOF"} THEN Clauses(p, cases, p.curToken.End, TRUE)
  ELSE LET caseStart == p.curToken.Start
           failed(q) == Clauses(q, cases, q.curToken.End, FALSE)
           clause(q, test, seen) ==
             LET b == switchConsequent(nextToken(q), <<>>, q.curToken.End) IN
             IF ~b.ok THEN failed(b.p)
             ELSE LET c == Alloc(b.p, NewSwitchCase(test, b.xs,
                                                    locFrom(caseStart, b.end)))
                  IN switchCases(c.p, Append(cases, c.e), seen)
       IN CASE p.curToken.Type = "CASE" ->
                 LET test == parseExpression(nextToken(p), lowest) IN
                 IF IsNil(test.e) THEN failed(test.p)
                 ELSE LET x == expectPeek(test.p, "COLON") IN
                      IF ~x.ok THEN failed(x.p) ELSE clause(x.p, test.e, seenDefault)
            [] p.curToken.Type = "DEFAULT" ->
                 IF seenDefault
                 THEN failed(addError(p, <<"multiple default clauses in switch">>))
                 ELSE LET x == expectPeek(p, "COLON") IN
                      IF ~x.ok THEN failed(x.p) ELSE clause(x.p, Nil, TRUE)
            [] OTHER -> failed(addError(p, <<"expected case or default clause">>))

Parser_parseSwitchStatement(p) ==
  LET start == p.curToken.Start
      discriminant == parenthesisedTest(p)
  IN IF IsNil(discriminant.e) THEN discriminant
     ELSE LET x == expectPeek(discriminant.p, "LBRACE") IN
          IF ~x.ok THEN R(x.p, Nil)
          ELSE LET c == switchCases(nextToken(x.p), <<>>, FALSE) IN
               IF ~c.ok THEN R(c.p, Nil)
               ELSE IF c.p.curToken.Type # "RBRACE"
               THEN R(addError(c.p, <<"unterminated switch statement">>), Nil)
               ELSE Alloc(c.p, NewSwitchStatement(discriminant.e, c.xs,
                                                  locFrom(start, c.p.curToken.End)))

Parser_parseCatchClause(p) ==
  LET start == p.curToken.Start
      x == expectPeek(p, "LPAREN")
  IN IF ~x.ok THEN R(x.p, Nil)
     ELSE LET param == parseBindingElement(nextToken(x.p), FALSE) IN
          IF IsNil(param.e) THEN R(param.p, Nil)
          ELSE LET y == expectPeek(param.p, "RPAREN") IN
               IF ~y.ok THEN R(y.p, Nil)
               ELSE LET z == expectPeek(y.p, "LBRACE") IN
                    IF ~z.ok THEN R(z.p, Nil)
                    ELSE LET body == parseBlockStatement(z.p) IN
                         IF IsNil(body.e) THEN R(body.p, Nil)
                         ELSE Alloc(body.p,
                                    NewCatchClause(param.e, body.e,
                                                   locFrom(start, body.p.curToken.End)))

\* tryHandlerAndFinalizer without its demand for a handler or a finalizer
tryWithoutRequirement(p, start, tryBlock) ==
  LET hasCatch == p.peekToken.Type = "CATCH"
      handler == IF hasCatch THEN parseCatchClause(nextToken(p)) ELSE R(p, Nil)
      q == handler.p
      end1 == IF hasCatch THEN q.curToken.End ELSE p.curToken.End
      hasFinally == q.peekToken.Type = "FINALLY"
      x == expectPeek(nextToken(q), "LBRACE")
      finalizer == parseBlockStatement(x.p)
      done(z, f, end) ==
        Alloc(z, NewTryStatement(tryBlock, handler.e, f, locFrom(start, end)))
  IN IF hasCatch /\ IsNil(handler.e) THEN R(q, Nil)
     ELSE IF ~hasFinally THEN done(q, Nil, end1)
     ELSE IF ~x.ok THEN R(x.p, Nil)
     ELSE IF IsNil(finalizer.e) THEN R(finalizer.p, Nil)
     ELSE done(finalizer.p, finalizer.e, finalizer.p.curToken.End)

\* the part of parseTryStatement after the try block: the handler if "catch"
\* follows, then the finalizer if "finally" follows
tryHandlerAndFinalizer(p, start, tryBlock) ==
  LET hasCatch == p.peekToken.Type = "CATCH"
      handler == IF hasCatch THEN parseCatchClause(nextToken(p)) ELSE R(p, Nil)
      q == handler.p
      end1 == IF hasCatch THEN q.curToken.End ELSE p.curToken.End
      hasFinally == q.peekToken.Type = "FINALLY"
      x == expectPeek(nextToken(q), "LBRACE")
      finalizer == parseBlockStatement(x.p)
      done(z, f, end) ==
        IF IsNil(handler.e) /\ IsNil(f)
        THEN R(addError(z, <<"try statement requires catch or finally">>), Nil)
        ELSE Alloc(z, NewTryStatement(tryBlock, handler.e, f, locFrom(start, end)))
  IN IF hasCatch /\ IsNil(handler.e) THEN R(q, Nil)
     ELSE IF ~hasFinally THEN done(q, Nil, end1)
     ELSE IF ~x.ok THEN R(x.p, Nil)
     ELSE IF IsNil(finalizer.e) THEN R(finalizer.p, Nil)
     ELSE done(finalizer.p, finalizer.e, finalizer.p.curToken.End)

Parser_parseTryStatement(p) ==
  LET start == p.curToken.Start
      x == expectPeek(p, "LBRACE")
  IN IF ~x.ok THEN R(x.p, Nil)
     ELSE LET blockStmt == parseBlockStatement(x.p) IN
          IF IsNil(blockStmt.e) THEN R(blockStmt.p, Nil)
          ELSE tryHandlerAndFinalizer(blockStmt.p, start, blockStmt.e)

Parser_parseStatement(p) ==
  LET tt == p.curToken.Type IN
  CASE tt \in {"VAR", "LET", "CONST"} -> parseVariableStatement(p)
    [] tt = "SEMICOLON" -> parseEmptyStatement(p)
    [] tt = "LBRACE" -> parseBlockStatement(p)
    [] tt = "RETURN" -> parseReturnStatement(p)
    [] tt = "IF" -> parseIfStatement(p)
    [] tt = "WHILE" -> parseWhileStatement(p)
    [] tt = "BREAK" -> parseBreakStatement(p)
    [] tt = "CONTINUE" -> parseContinueStatement(p)
    [] tt = "SWITCH" -> parseSwitchStatement(p)
    [] tt = "THROW" -> parseThrowStatement(p)
    [] tt = "TRY" -> parseTryStatement(p)
    [] tt = "DEBUGGER" -> parseDebuggerStatement(p)
    [] tt = "FUNCTION" -> parseFunctionDeclaration(p)
    [] tt = "IDENT" -> IF p.peekToken.Type = "COLON" THEN parseLabeledStatement(p)
                       ELSE parseExpressionStatement(p)
    [] tt \notin OtherStatementTokens \cup
                 {"VAR", "LET", "CONST", "SEMICOLON", "LBRACE", "RETURN", "IF", "WHILE",
                  "BREAK", "CONTINUE", "SWITCH", "THROW", "TRY", "DEBUGGER", "FUNCTION",
                  "IDENT"} ->
         parseExpressionStatement(p)

\* the method of Parser named fn applied to the arguments a
ParserCall(fn, a) ==
  CASE fn = "nextToken" -> Parser_nextToken(a[1])
    [] fn = "expectPeek" -> Parser_expectPeek(a[1], a[2])
    [] fn = "parseExpression" -> Parser_parseExpression(a[1], a[2])
    [] fn = "parseStatement" -> Parser_parseStatement(a[1])
    [] fn = "parseGroupedExpression" -> Parser_parseGroupedExpression(a[1])
    [] fn = "parsePrefixExpression" -> Parser_parsePrefixExpression(a[1])
    [] fn = "parsePostfixExpression" -> Parser_parsePostfixExpression(a[1], a[2])
    [] fn = "parseInfixExpression" -> Parser_parseInfixExpression(a[1], a[2])
    [] fn = "parseLogicalExpression" -> Parser_parseLogicalExpression(a[1], a[2])
    [] fn = "parseAssignmentExpression" -> Parser_parseAssignmentExpression(a[1], a[2])
    [] fn = "parseNewExpression" -> Parser_parseNewExpression(a[1])
    [] fn = "parseConditionalExpression" -> Parser_parseConditionalExpression(a[1], a[2])
    [] fn = "parseCallExpression" -> Parser_parseCallExpression(a[1], a[2])
    [] fn = "parseMemberExpression" -> Parser_parseMemberExpression(a[1], a[2])
    [] fn = "parseComputedMemberExpression" -> Parser_parseComputedMemberExpression(a[1], a[2])
    [] fn = "parseSequenceExpression" -> Parser_parseSequenceExpression(a[1], a[2])
    [] fn = "parseArrayLiteral" -> Parser_parseArrayLiteral(a[1])
    [] fn = "parseObjectLiteral" -> Parser_parseObjectLiteral(a[1])
    [] fn = "parseObjectProperty" -> Parser_parseObjectProperty(a[1])
    [] fn = "parseStringLiteral" -> Parser_parseStringLiteral(a[1])
    [] fn = "parseBlockStatement" -> Parser_parseBlockStatement(a[1])
    [] fn = "parseIfStatement" -> Parser_parseIfStatement(a[1])
    [] fn = "parseWhileStatement" -> Parser_parseWhileStatement(a[1])
    [] fn = "parseLabeledStatement" -> Parser_parseLabeledStatement(a[1])
    [] fn = "parseVariableStatement" -> Parser_parseVariableStatement(a[1])
    [] fn = "parseVariableDeclarator" -> Parser_parseVariableDeclarator(a[1])
    [] fn = "parseBindingElement" -> Parser_parseBindingElement(a[1], a[2])
    [] fn = "parseBindingPrimary" -> Parser_parseBindingPrimary(a[1])
    [] fn = "parseArrayPattern" -> Parser_parseArrayPattern(a[1])
    [] fn = "parseObjectPattern" -> Parser_parseObjectPattern(a[1])
    [] fn = "parseObjectPatternProperty" -> Parser_parseObjectPatternProperty(a[1])
    [] fn = "parseFunctionParams" -> Parser_parseFunctionParams(a[1])
    [] fn = "parseFunctionDeclaration" -> Parser_parseFunctionDeclaration(a[1])
    [] fn = "parseExpressionStatement" -> Parser_parseExpressionStatement(a[1])
    [] fn = "parseReturnStatement" -> Parser_parseReturnStatement(a[1])
    [] fn = "parseThrowStatement" -> Parser_parseThrowStatement(a[1])
    [] fn = "parseSwitchStatement" -> Parser_parseSwitchStatement(a[1])
    [] fn = "switchCases" -> Parser_switchCases(a[1], a[2], a[3])
    [] fn = "switchConsequent" -> Parser_switchConsequent(a[1], a[2], a[3])
    [] fn = "parseTryStatement" -> Parser_parseTryStatement(a[1])
    [] fn = "parseCatchClause" -> Parser_parseCatchClause(a[1])
    [] fn = "parseBreakStatement" -> Parser_parseBreakStatement(a[1])
    [] fn = "parseContinueStatement" -> Parser_parseContinueStatement(a[1])
    [] fn = "parseDebuggerStatement" -> Parser_parseDebuggerStatement(a[1])
    [] fn = "parseEmptyStatement" -> Parser_parseEmptyStatement(a[1])
    [] fn = "wrapNewExpression" -> Parser_wrapNewExpression(a[1], a[2], a[3])

----------------------------------------------------------------------------
(* ParseProgram: one step per iteration of its statement loop *)

NoParser == [idle |-> TRUE]
ZeroLocation == Location(Position(0, 0, 0), Position(0, 0, 0))

NewProgram(stmts, loc) ==
  [kind |-> "Program", loc |-> loc, Body |-> stmts, SourceType |-> "script"]

\* for !p.curTokenIs(EOF) { stmt := p.parseStatement(); ...; p.nextToken() }
ParseStatementStep ==
  /\ pc = "loop"
  /\ ps.curToken.Type # "EOF"
  /\ LET s == parseStatement(ps) IN
       /\ ps' = IF s.p.panicked \/ s.p.diverged THEN s.p ELSE nextToken(s.p)
       /\ programBody' = IF IsNil(s.e) \/ s.p.panicked \/ s.p.diverged
                         THEN programBody ELSE Append(programBody, s.e)
       /\ pc' = CASE s.p.panicked -> "panicked"
                  [] s.p.diverged -> "diverged"
                  [] OTHER -> "loop"
  /\ turn' = 1 - turn
  /\ UNCHANGED <<lx, lastTok, emitted, ret, twin, envs, call>>

\* the statement loop of parseBlockStatement going round once more, which
\* changes nothing the parse depends on
BlockLoopSpin ==
  /\ pc = "diverged"
  /\ turn' = 1 - turn
  /\ UNCHANGED <<lx, lastTok, emitted, ps, programBody, pc, ret, twin, envs, call>>

\* what ParseProgram returns after its loop, for the parser p and the
\* statements body: the Program, or nil and the joined errors
programAfterLoop(p, body) ==
  Alloc(p, NewProgram(body,
                      IF Len(body) > 0
                      THEN Location(body[1].loc.Start, body[Len(body)].loc.End)
                      ELSE ZeroLocation)).e

returnProgramDespiteErrors(p, body) ==
  [program |-> programAfterLoop(p, body), err |-> <<>>]

ParseProgramResult(p, body) ==
  IF Len(p.errors) > 0
  THEN [program |-> Nil, err |-> p.errors]
  ELSE [program |-> programAfterLoop(p, body), err |-> <<>>]

\* the part of ParseProgram after the loop
ParseProgramReturn ==
  /\ pc = "loop"
  /\ ps.curToken.Type = "EOF"
  /\ ret' = ParseProgramResult(ps, programBody)
  /\ pc' = "returned"
  /\ turn' = 1 - turn
  /\ UNCHANGED <<lx, lastTok, emitted, ps, programBody, twin, envs, call>>
----------------------------------------------------------------------------
(* The VM's lexical environments *)

\* Value{kind: UndefinedKind}, which is also the zero Value
Undefined == [kind |-> "undefined"]
NewNumber(n) == [kind |-> "number", num |-> n]

NoError == "nil"
BindingKinds == {"var", "let", "const"}

\* &binding{kind: kind}: the other fields hold their zero values
Binding(kind) ==
  [value |-> Undefined, mutable |-> FALSE, initialized |-> FALSE, kind |-> kind]

\* An Environment is a record on the heap, a sequence of environments; a
\* pointer to one is its index there, and 0 is the nil pointer.  record maps
\* the names declared in the environment to their bindings.
NoRecord == [n \in {} |-> Binding("var")]

\* the heap after NewEnvironment(outer), whose result is the last index
NewEnvironment(heap, outer) ==
  LET self == Len(heap) + 1 IN
  Append(heap, [outer |-> outer, record |-> NoRecord,
                varParent |-> IF outer = 0 THEN self ELSE heap[outer].varParent,
                isVarEnv |-> outer = 0])

\* the heap after NewVariableEnvironment(outer)
NewVariableEnvironment(heap, outer) ==
  Append(heap, [outer |-> outer, record |-> NoRecord, varParent |-> Len(heap) + 1,
                isVarEnv |-> TRUE])

HasOwn(heap, e, name) == name \in DOMAIN heap[e].record

targetFor(heap, e, kind) ==
  IF kind = "var"
  THEN IF heap[e].varParent # 0 THEN heap[e].varParent ELSE e
  ELSE e

\* target.record[name] = b
Bind(heap, e, name, b) ==
  [heap EXCEPT ![e].record =
     [n \in DOMAIN @ \cup {name} |-> IF n = name THEN b ELSE @[n]]]

\* what a method that may change an environment hands back: the heap after
\* it, the value returned (Undefined when the method returns only an error)
\* and the error
Outcome(heap, val, err) == [heap |-> heap, val |-> val, err |-> err]

\* Declare that binds the name afresh when a var is declared again
DeclareBindingAgain(heap, e, name, kind) ==
  LET target == targetFor(heap, e, kind)
      fresh == [Binding(kind) EXCEPT !.mutable = kind # "const",
                                     !.initialized = kind = "var"]
  IN IF HasOwn(heap, target, name)
          /\ ~(kind = "var" /\ heap[target].record[name].kind = "var")
     THEN Outcome(heap, Undefined, "SyntaxError: identifier has already been declared")
     ELSE Outcome(Bind(heap, target, name, fresh), Undefined, NoError)

Environment_Declare(heap, e, name, kind) ==
  LET target == targetFor(heap, e, kind) IN
  IF HasOwn(heap, target, name)
  THEN IF kind = "var" /\ heap[target].record[name].kind = "var"
       THEN Outcome(heap, Undefined, NoError)
       ELSE Outcome(heap, Undefined, "SyntaxError: identifier has already been declared")
  ELSE CASE kind = "var" ->
              Outcome(Bind(heap, target, name,
                           [Binding(kind) EXCEPT !.mutable = TRUE, !.initialized = TRUE,
                                                 !.value = Undefined]),
                      Undefined, NoError)
         [] kind = "let" ->
              Outcome(Bind(heap, target, name, [Binding(kind) EXCEPT !.mutable = TRUE]),
                      Undefined, NoError)
         [] kind = "const" ->
              Outcome(Bind(heap, target, name, [Binding(kind) EXCEPT !.mutable = FALSE]),
                      Undefined, NoError)
         [] OTHER -> Outcome(heap, Undefined, "internal error: unknown binding kind")

Environment_Initialize(heap, e, name, value) ==
  IF ~HasOwn(heap, e, name)
  THEN Outcome(heap, Undefined, "ReferenceError: is not defined")
  ELSE IF heap[e].record[name].initialized
  THEN Outcome(heap, Undefined, "TypeError: identifier has already been initialized")
  ELSE Outcome([heap EXCEPT ![e].record[name].value = value,
                            ![e].record[name].initialized = TRUE],
               Undefined, NoError)

RECURSIVE Environment_Get(_, _, _), Environment_Set(_, _, _, _)

\* Get that hands out a binding's value whether or not it is initialized
GetIgnoringInitialized(heap, e, name) ==
  IF HasOwn(heap, e, name)
  THEN Outcome(heap, heap[e].record[name].value, NoError)
  ELSE IF heap[e].outer # 0 THEN Environment_Get(heap, heap[e].outer, name)
  ELSE Outcome(heap, Undefined, "ReferenceError: is not defined")

Environment_Get(heap, e, name) ==
  IF HasOwn(heap, e, name)
  THEN IF ~heap[e].record[name].initialized
       THEN Outcome(heap, Undefined, "ReferenceError: Cannot access before initialization")
       ELSE Outcome(heap, heap[e].record[name].value, NoError)
  ELSE IF heap[e].outer # 0 THEN Environment_Get(heap, heap[e].outer, name)
  ELSE Outcome(heap, Undefined, "ReferenceError: is not defined")

\* Set that writes to a binding whether or not it is mutable
SetIgnoringMutable(heap, e, name, value) ==
  IF HasOwn(heap, e, name)
  THEN IF ~heap[e].record[name].initialized
       THEN Outcome(heap, Undefined, "ReferenceError: Cannot access before initialization")
       ELSE Outcome([heap EXCEPT ![e].record[name].value = value], Undefined, NoError)
  ELSE IF heap[e].outer # 0 THEN Environment_Set(heap, heap[e].outer, name, value)
  ELSE Outcome(heap, Undefined, "ReferenceError: is not defined")

\* Set that binds the name in the receiver when the receiver has no binding
SetBindingInReceiver(heap, e, name, value) ==
  IF HasOwn(heap, e, name)
  THEN IF ~heap[e].record[name].initialized
       THEN Outcome(heap, Undefined, "ReferenceError: Cannot access before initialization")
       ELSE IF ~heap[e].record[name].mutable
       THEN Outcome(heap, Undefined, "TypeError: Assignment to constant variable")
       ELSE Outcome([heap EXCEPT ![e].record[name].value = value], Undefined, NoError)
  ELSE Outcome(Bind(heap, e, name,
                    [Binding("var") EXCEPT !.mutable = TRUE, !.initialized = TRUE,
                                           !.value = value]),
               Undefined, NoError)

Environment_Set(heap, e, name, value) ==
  IF HasOwn(heap, e, name)
  THEN IF ~heap[e].record[name].initialized
       THEN Outcome(heap, Undefined, "ReferenceError: Cannot access before initialization")
       ELSE IF ~heap[e].record[name].mutable
       THEN Outcome(heap, Undefined, "TypeError: Assignment to constant variable")
       ELSE Outcome([heap EXCEPT ![e].record[name].value = value], Undefined, NoError)
  ELSE IF heap[e].outer # 0 THEN Environment_Set(heap, heap[e].outer, name, value)
  ELSE Outcome(heap, Undefined, "ReferenceError: is not defined")

\* The calls drawn: up to MaxEnvs environments, each created inside the
\* latest one, one name, a value to initialize with and another to assign.
MaxEnvs == 3
\* most bindings held by the environments together
MaxBindings == 2
EnvNames == {"x"}
Bindings(heap) ==
  Cardinality({en \in (1 .. Len(heap)) \X EnvNames : HasOwn(heap, en[1], en[2])})
InitialValues == {NewNumber(42)}
AssignedValues == {NewNumber(7)}

NoCall == [op |-> "none"]
NoKind == "none"
\* the record of a call: the method, the receiver, the name, the binding kind
\* (NoKind when it takes none) and the value it was given (Undefined when it
\* takes none), the value and error returned
Call(op, e, name, kind, arg, out) ==
  [op |-> op, env |-> e, name |-> name, kind |-> kind, arg |-> arg,
   val |-> out.val, err |-> out.err]


----------------------------------------------------------------------------
(* Bounds and inputs *)

MaxSrcLen == 3        \* longest source over LexChars
MaxTemplateLen == 6   \* longest template text after its opening backtick
MaxEmitted == 10      \* tokens kept in the emitted history
MaxPieces == 3        \* most words in a source over Words
MaxInterpolations == 3  \* most interpolations in a template literal
MaxTwinLen == 2       \* longest source drawn from LexChars for two lexers
MaxTwinTokens == 4    \* most tokens asked of the second lexer
MaxChain == 3         \* most links after "new a ( )"
MaxLiveLen == 3       \* MaxSrcLen and MaxTemplateLen where calls go on for ever
MaxLivePieces == 2    \* MaxPieces where the parse may go on for ever

RECURSIVE SeqsUpTo(_, _)
\* All sequences over S of length at most n.
SeqsUpTo(S, n) ==
  IF n = 0 THEN {<<>>}
  ELSE LET shorter == SeqsUpTo(S, n - 1) IN
       shorter \cup {Append(s, c) : s \in shorter, c \in S}

LexChars == {"a", "0", "x", "+", "/", "*", "\"", " ", LF, ")", "}"}
TemplateChars == {Backtick, "$", "{", "}"}

\* Source text that opens a template literal.
TemplateSources == {<<Backtick>> \o s : s \in SeqsUpTo(TemplateChars, MaxTemplateLen)}

\* The operators of more than one character, each with its token kind.
MultiCharOperators ==
  {
   [lexeme |-> <<"+", "+">>, kind |-> "INCREMENT"],
   [lexeme |-> <<"-", "-">>, kind |-> "DECREMENT"],
   [lexeme |-> <<"<", "<">>, kind |-> "SHIFT_LEFT"],
   [lexeme |-> <<">", ">">>, kind |-> "SHIFT_RIGHT"],
   [lexeme |-> <<">", ">", ">">>, kind |-> "UNSIGNED_SHIFT_RIGHT"],
   [lexeme |-> <<"&", "&">>, kind |-> "LOGICAL_AND"],
   [lexeme |-> <<"|", "|">>, kind |-> "LOGICAL_OR"],
   [lexeme |-> <<"=", "=">>, kind |-> "EQUAL"],
   [lexeme |-> <<"=", "=", "=">>, kind |-> "STRICT_EQUAL"],
   [lexeme |-> <<"!", "=">>, kind |-> "NOT_EQUAL"],
   [lexeme |-> <<"!", "=", "=">>, kind |-> "STRICT_NOT_EQUAL"],
   [lexeme |-> <<"<", "=">>, kind |-> "LESS_EQUAL"],
   [lexeme |-> <<">", "=">>, kind |-> "GREATER_EQUAL"],
   [lexeme |-> <<"+", "=">>, kind |-> "PLUS_ASSIGN"],
   [lexeme |-> <<"-", "=">>, kind |-> "MINUS_ASSIGN"],
   [lexeme |-> <<"*", "=">>, kind |-> "MULTIPLY_ASSIGN"],
   [lexeme |-> <<"/", "=">>, kind |-> "DIVIDE_ASSIGN"],
   [lexeme |-> <<"%", "=">>, kind |-> "MODULO_ASSIGN"],
   [lexeme |-> <<"<", "<", "=">>, kind |-> "SHIFT_LEFT_ASSIGN"],
   [lexeme |-> <<">", ">", "=">>, kind |-> "SHIFT_RIGHT_ASSIGN"],
   [lexeme |-> <<">", ">", ">", "=">>, kind |-> "UNSIGNED_SHIFT_ASSIGN"],
   [lexeme |-> <<"&", "=">>, kind |-> "BITWISE_AND_ASSIGN"],
   [lexeme |-> <<"|", "=">>, kind |-> "BITWISE_OR_ASSIGN"],
   [lexeme |-> <<"^", "=">>, kind |-> "BITWISE_XOR_ASSIGN"],
   [lexeme |-> <<"=", ">">>, kind |-> "ARROW"],
   [lexeme |-> <<".", ".", ".">>, kind |-> "ELLIPSIS"]
  }

\* An operator between two operands, one space apart or with no space; before
\* gives the characters that precede the operator.
OperatorForms == {[before |-> <<"a", " ">>, after |-> <<" ", "b">>],
                  [before |-> <<"a">>, after |-> <<"b">>],
                  [before |-> <<"(", "a", ")">>, after |-> <<"1">>]}
OperatorSource(f, op) == f.before \o op.lexeme \o f.after
OperatorSources == {OperatorSource(f, op) : f \in OperatorForms, op \in MultiCharOperators}

\* A slash after an identifier or a closing parenthesis, with white space of
\* every kind between, and "/x/" where an expression starts.
Operands == {<<"a">>, <<"f", "o", "o">>, <<")">>, <<"(", "a", ")">>}
Gaps == {<<>>, <<" ">>, <<" ", " ">>, <<"\t">>, <<LF>>, <<" ", LF, " ">>}
AfterSlash == {<<"x", "/">>, <<" ", "2">>, <<"x", "/", "g">>}
DivideSources ==
  {[before |-> o \o g, src |-> o \o g \o <<"/">> \o t] :
     o \in Operands, g \in Gaps, t \in AfterSlash}
ExpressionStarts ==
  {<<>>, <<"r", "e", "t", "u", "r", "n", " ">>, <<"r", "e", "t", "u", "r", "n", LF>>,
   <<"(">>, <<"a", " ", "=", " ">>, <<"a", ",">>, <<"a", ";", " ">>, <<"!">>, <<"[">>,
   <<"a", " ", "+", " ">>, <<"a", "?">>}
RegexTails == {<<>>, <<"g">>, <<" ", "a">>, <<";">>}
RegexSources ==
  {[before |-> c, src |-> c \o <<"/", "x", "/">> \o t] :
     c \in ExpressionStarts, t \in RegexTails}
SlashSources == {s.src : s \in DivideSources \cup RegexSources}

\* Source text with every line terminator and a rune of two UTF-16 code units.
PositionChars == {"a", " ", LF, CR, Astral}
PositionSources == SeqsUpTo(PositionChars, MaxSrcLen)

\* A template literal with n interpolations at the start of the source, text
\* around them or none, and then nothing, "}" or " }".
RECURSIVE Interpolations(_, _)
Interpolations(n, text) ==
  IF n = 0 THEN <<>> ELSE <<"$", "{", "a", "}">> \o text \o Interpolations(n - 1, text)
InterpolationForms ==
  [n : 0 .. MaxInterpolations, text : {<<>>, <<"x">>},
   after : {<<>>, <<"}">>, <<" ", "}">>}]
TemplateLiteral(f) ==
  <<Backtick>> \o f.text \o Interpolations(f.n, f.text) \o <<Backtick>>
InterpolationSource(f) == TemplateLiteral(f) \o f.after
InterpolationSources == {InterpolationSource(f) : f \in InterpolationForms}

LexSources ==
  SeqsUpTo(LexChars, MaxSrcLen) \cup TemplateSources \cup OperatorSources
    \cup SlashSources \cup PositionSources \cup InterpolationSources
\* Source text for two lexers side by side.
TwinSources == SeqsUpTo(LexChars, MaxTwinLen) \cup SlashSources
LexLiveSources ==
  SeqsUpTo(LexChars, MaxLiveLen - 1)
    \cup {<<Backtick>> \o s : s \in SeqsUpTo(TemplateChars, MaxLiveLen)}

\* The words of a source written one space apart.
RECURSIVE Join(_)
Join(ws) ==
  IF ws = <<>> THEN <<>>
  ELSE IF Len(ws) = 1 THEN ws[1]
  ELSE ws[1] \o <<" ">> \o Join(Tail(ws))

wNew == <<"n", "e", "w">>
wLet == <<"l", "e", "t">>
wFoo == <<"f", "o", "o">>
\* a template whose interpolation is closed and whose text then ends
wOpenTemplate == <<Backtick, "$", "{", "a", "}">>

Words ==
  {<<"a">>, <<"1">>, <<"+">>, <<"+", "+">>, <<"(">>, <<")">>, <<".">>, <<"=">>,
   <<";">>, <<",">>, <<"{">>, <<"}">>, wNew, wLet, wOpenTemplate}

\* Binding patterns are not drawn: a source with "let" has no "{".
NoPattern(ws) ==
  (\E i \in 1 .. Len(ws) : ws[i] = wLet) => (\A i \in 1 .. Len(ws) : ws[i] # <<"{">>)
WordSources == {Join(ws) : ws \in {w \in SeqsUpTo(Words, MaxPieces) : NoPattern(w)}}

ParserLiveSources ==
  {Join(ws) : ws \in {w \in SeqsUpTo(Words, MaxLivePieces) : NoPattern(w)}}

\* A malformed first statement, then a well-formed one.
Malformed ==
  {<<wLet, <<"x">>, <<"=">>, <<";">>>>, <<wLet, <<";">>>>, <<<<"a">>, <<"+">>, <<";">>>>,
   <<<<"(">>, <<";">>>>}
WellFormed ==
  {<<wFoo, <<"(">>, <<")">>, <<";">>>>, <<wFoo, <<";">>>>,
   <<wFoo, <<"=">>, <<"1">>, <<";">>>>}
RecoverySources == {Join(m \o g) : m \in Malformed, g \in WellFormed}

\* "new", a callee, an argument list, and a chain of calls and member accesses.
Links == {<<<<"(">>, <<")">>>>, <<<<".">>, <<"b">>>>, <<<<"[">>, <<"1">>, <<"]">>>>}
RECURSIVE Flatten(_)
Flatten(ls) == IF ls = <<>> THEN <<>> ELSE Head(ls) \o Flatten(Tail(ls))
NewHead == <<wNew, wFoo, <<"(">>, <<"1">>, <<")">>>>
NewChainSources == {Join(NewHead \o Flatten(c)) : c \in SeqsUpTo(Links, MaxChain)}

\* A prefix update of something that is no assignment target, then more.
UpdateSources ==
  {Join(<<op, <<"1">>>> \o rest) :
     op \in {<<"+", "+">>, <<"-", "-">>},
     rest \in {<<>>, <<<<";">>>>, <<<<"+">>, <<"a">>>>, <<<<".">>, <<"b">>>>,
               <<<<"(">>, <<")">>>>, <<<<"=">>, <<"a">>>>, <<<<"+", "+">>>>,
               <<<<"?">>, <<"a">>, <<":">>, <<"a">>>>, <<<<",">>, <<"a">>>>}}

\* An assignment to, or an update of, a target: what the parser accepts as a
\* target and what it does not.
wThis == <<"t", "h", "i", "s">>
AssignableTargets ==
  {<<<<"a">>>>, <<<<"a">>, <<".">>, <<"b">>>>, <<<<"a">>, <<"[">>, <<"1">>, <<"]">>>>,
   <<<<"(">>, <<"a">>, <<")">>>>}
OtherTargets ==
  {<<<<"1">>>>, <<<<"a">>, <<"(">>, <<")">>>>, <<wThis>>, <<wNew, <<"a">>>>,
   <<<<"(">>, <<"a">>, <<"+">>, <<"1">>, <<")">>>>, <<<<"[">>, <<"a">>, <<"]">>>>}
TargetForms(t) ==
  {Join(t \o <<<<"=">>, <<"1">>>>), Join(t \o <<<<"+", "=">>, <<"a">>>>),
   Join(t \o <<<<"+", "+">>>>), Join(<<<<"+", "+">>>> \o t),
   Join(<<<<"-", "-">>>> \o t)}
GoodTargetSources == UNION {TargetForms(t) : t \in AssignableTargets}
BadTargetSources == UNION {TargetForms(t) : t \in OtherTargets}
MixedTargetSources ==
  {Join(<<<<"a">>, <<"=">>, <<"1">>, <<";">>, <<"1">>, <<"=">>, <<"a">>>>),
   Join(<<<<"a">>, <<"+", "+">>, <<";">>, <<"1">>, <<"+", "+">>>>),
   Join(<<<<"+", "+">>, <<"a">>, <<";">>, <<"-", "-">>, <<"1">>>>)}
TargetSources == GoodTargetSources \cup BadTargetSources \cup MixedTargetSources

\* Array patterns, object patterns and parameter lists whose members are
\* bindings and rest elements in every order.
MaxMembers == 3
MaxClauses == 3
wRest == <<".", ".", ".", "b">>
wFunction == <<"f", "u", "n", "c", "t", "i", "o", "n">>
RECURSIVE Separated(_)
Separated(ws) ==
  IF Len(ws) <= 1 THEN ws ELSE <<ws[1], <<",">>>> \o Separated(Tail(ws))
MemberLists == SeqsUpTo({<<"a">>, wRest}, MaxMembers)
RestIsLast(ms) == \A i \in 1 .. Len(ms) : ms[i] = wRest => i = Len(ms)
PatternForms(ms) ==
  {Join(<<wLet, <<"[">>>> \o Separated(ms) \o <<<<"]">>, <<"=">>, <<"a">>>>),
   Join(<<wLet, <<"{">>>> \o Separated(ms) \o <<<<"}">>, <<"=">>, <<"a">>>>),
   Join(<<wFunction, <<"f">>, <<"(">>>> \o Separated(ms) \o <<<<")">>, <<"{">>, <<"}">>>>)}
GoodRestSources == UNION {PatternForms(ms) : ms \in {m \in MemberLists : RestIsLast(m)}}
BadRestSources == UNION {PatternForms(ms) : ms \in {m \in MemberLists : ~RestIsLast(m)}}
NestedPatternSources ==
  {Join(<<wLet, <<"[">>, <<"[">>, wRest, <<"]">>, <<",">>, <<"{">>, <<"a">>, <<":">>,
          <<"{">>, wRest, <<"}">>, <<",">>, <<"c">>, <<"=">>, <<"1">>, <<"}">>, <<",">>,
          <<",">>, wRest, <<"]">>, <<"=">>, <<"a">>, <<";">>,
          wLet, <<"[">>, wRest, <<",">>, <<"a">>, <<"]">>, <<"=">>, <<"a">>>>),
   Join(<<wFunction, <<"*">>, <<"f">>, <<"(">>, <<"[">>, <<"a">>, <<",">>, wRest, <<"]">>,
          <<",">>, <<"a">>, <<"=">>, <<"1">>, <<",">>, <<".", ".", ".">>, <<"[">>, <<"a">>,
          <<"]">>, <<")">>, <<"{">>, <<"r", "e", "t", "u", "r", "n">>, <<"a">>, <<"}">>>>)}
RestSources == GoodRestSources \cup BadRestSources \cup NestedPatternSources

\* "new" with no argument list, with an empty one and with one argument.
NewFoo == Join(<<wNew, wFoo>>)
NewFooEmpty == Join(<<wNew, wFoo, <<"(">>, <<")">>>>)
NewArgumentSources == {NewFoo, NewFooEmpty, Join(NewHead)}

\* The binary operators: the token kinds of the precedence table from the
\* logical operators up to the multiplicative ones, each with its spelling.
BinaryOperators ==
  {
   [lexeme |-> <<"+">>, kind |-> "PLUS"],
   [lexeme |-> <<"-">>, kind |-> "MINUS"],
   [lexeme |-> <<"*">>, kind |-> "MULTIPLY"],
   [lexeme |-> <<"/">>, kind |-> "DIVIDE"],
   [lexeme |-> <<"%">>, kind |-> "MODULO"],
   [lexeme |-> <<"=", "=">>, kind |-> "EQUAL"],
   [lexeme |-> <<"!", "=">>, kind |-> "NOT_EQUAL"],
   [lexeme |-> <<"=", "=", "=">>, kind |-> "STRICT_EQUAL"],
   [lexeme |-> <<"!", "=", "=">>, kind |-> "STRICT_NOT_EQUAL"],
   [lexeme |-> <<"<">>, kind |-> "LESS_THAN"],
   [lexeme |-> <<"<", "=">>, kind |-> "LESS_EQUAL"],
   [lexeme |-> <<">">>, kind |-> "GREATER_THAN"],
   [lexeme |-> <<">", "=">>, kind |-> "GREATER_EQUAL"],
   [lexeme |-> <<"i", "n">>, kind |-> "IN"],
   [lexeme |-> <<"i", "n", "s", "t", "a", "n", "c", "e", "o", "f">>, kind |-> "INSTANCEOF"],
   [lexeme |-> <<"<", "<">>, kind |-> "SHIFT_LEFT"],
   [lexeme |-> <<">", ">">>, kind |-> "SHIFT_RIGHT"],
   [lexeme |-> <<">", ">", ">">>, kind |-> "UNSIGNED_SHIFT_RIGHT"],
   [lexeme |-> <<"&">>, kind |-> "BITWISE_AND"],
   [lexeme |-> <<"|">>, kind |-> "BITWISE_OR"],
   [lexeme |-> <<"^">>, kind |-> "BITWISE_XOR"],
   [lexeme |-> <<"&", "&">>, kind |-> "LOGICAL_AND"],
   [lexeme |-> <<"|", "|">>, kind |-> "LOGICAL_OR"]
  }

\* "a op1 b op2 c" for every two binary operators.
PrecedenceSource(op1, op2) ==
  Join(<<<<"a">>, op1.lexeme, <<"b">>, op2.lexeme, <<"c">>>>)
PrecedenceSources ==
  {PrecedenceSource(op1, op2) : op1 \in BinaryOperators, op2 \in BinaryOperators}

\* "a op1 b op2 c" for every two assignment operators, and a conditional
\* whose alternate is a conditional.
AssignmentOperators ==
  {op \in MultiCharOperators : op.kind \in AssignTokens}
    \cup {[lexeme |-> <<"=">>, kind |-> "ASSIGN"]}
AssignmentChainSources ==
  {PrecedenceSource(op1, op2) : op1 \in AssignmentOperators, op2 \in AssignmentOperators}
ConditionalChain ==
  Join(<<<<"a">>, <<"?">>, <<"b">>, <<":">>, <<"c">>, <<"?">>, <<"d">>, <<":">>, <<"e">>>>)
RightAssociativeSources == AssignmentChainSources \cup {ConditionalChain}

\* One source for each statement and expression form of the model.
SampleSources ==
  {
   Join(<<<<"i", "f">>, <<"(">>, <<"a">>, <<")">>, <<"a">>, <<";">>, <<"e", "l", "s", "e">>, <<"1">>, <<";">>>>),
   Join(<<<<"i", "f">>, <<"(">>, <<"a">>, <<")">>, <<"{">>, <<"a">>, <<";">>, <<"}">>>>),
   Join(<<<<"w", "h", "i", "l", "e">>, <<"(">>, <<"a">>, <<")">>, <<"{">>, <<"a">>, <<"+", "+">>, <<";">>, <<"b", "r", "e", "a", "k">>, <<";">>, <<"}">>>>),
   Join(<<<<"r", "e", "t", "u", "r", "n">>, <<"a">>, <<";">>>>),
   Join(<<<<"r", "e", "t", "u", "r", "n">>>>),
   Join(<<<<"r", "e", "t", "u", "r", "n">>, <<"(">>, <<"a">>, <<")">>>>),
   Join(<<<<"b", "r", "e", "a", "k">>, <<"a">>, <<";">>>>),
   Join(<<<<"c", "o", "n", "t", "i", "n", "u", "e">>, <<";">>>>),
   Join(<<<<"a">>, <<":">>, <<"a">>, <<";">>>>),
   Join(<<<<"t", "h", "r", "o", "w">>, <<"a">>, <<";">>>>),
   Join(<<<<"d", "e", "b", "u", "g", "g", "e", "r">>, <<";">>>>),
   Join(<<<<"[">>, <<"a">>, <<",">>, <<",">>, <<".", ".", ".">>, <<"a">>, <<"]">>>>),
   Join(<<<<"[">>, <<"a">>, <<",">>, <<"]">>>>),
   Join(<<<<"(">>, <<"{">>, <<"a">>, <<":">>, <<"1">>, <<",">>, <<"a">>, <<",">>, <<"[">>, <<"a">>, <<"]">>, <<":">>, <<"(">>, <<"1">>, <<")">>, <<",">>, <<"\"", "s", "\"">>, <<":">>, <<"'", "a", "b", "'">>, <<",">>, <<".", ".", ".">>, <<"a">>, <<"}">>, <<")">>>>),
   Join(<<<<"a">>, <<"?">>, <<"1">>, <<":">>, <<"(">>, <<"a">>, <<",">>, <<"1">>, <<")">>>>),
   Join(<<<<"a">>, <<",">>, <<"1">>, <<",">>, <<"a">>>>),
   Join(<<<<"/", "x", "/", "g">>>>),
   Join(<<<<"a">>, <<"&", "&">>, <<"!">>, <<"a">>>>),
   Join(<<<<"t", "y", "p", "e", "o", "f">>, <<"-">>, <<"a">>>>),
   Join(<<<<"n", "e", "w">>, <<".">>, <<"t", "a", "r", "g", "e", "t">>>>),
   Join(<<<<"n", "e", "w">>, <<"a">>, <<".">>, <<"b">>>>),
   Join(<<<<"(">>, <<"n", "e", "w">>, <<"a">>, <<")">>, <<"(">>, <<")">>>>),
   Join(<<<<"v", "a", "r">>, <<"a">>, <<"=">>, <<"(">>, <<"1">>, <<"+">>, <<"a">>, <<")">>, <<",">>, <<"b">>>>),
   Join(<<<<"t", "h", "i", "s">>, <<".">>, <<"a">>, <<"=">>, <<"s", "u", "p", "e", "r">>, <<".">>, <<"b">>>>),
   Join(<<<<"t", "r", "u", "e">>, <<"|", "|">>, <<"n", "u", "l", "l">>>>),
   Join(<<<<"a">>, <<"(">>, <<"1">>, <<",">>, <<"a">>, <<")">>, <<"[">>, <<"1">>, <<"]">>>>)
  }

\* Array binding patterns: positions that hold a name, nothing (an elision)
\* or a name with a default, closed at once, after a last comma, or after a
\* rest element.
ArrayItems == {"name", "hole", "default"}
ArrayEnds == {"close", "comma", "rest"}
wRestC == <<".", ".", ".", "c">>
ItemWords(it) ==
  CASE it = "name" -> <<<<"a">>>>
    [] it = "hole" -> <<>>
    [] it = "default" -> <<<<"b">>, <<"=">>, <<"1">>>>
RECURSIVE ItemsWords(_)
\* every position followed by its comma
ItemsWords(items) ==
  IF items = <<>> THEN <<>>
  ELSE ItemWords(Head(items)) \o <<<<",">>>> \o ItemsWords(Tail(items))
ArrayForms ==
  {f \in [items : SeqsUpTo(ArrayItems, MaxMembers), end : ArrayEnds] :
     /\ f.end = "close" => (f.items = <<>> \/ f.items[Len(f.items)] # "hole")
     /\ f.end = "comma" => f.items # <<>>}
ArrayFormWords(f) ==
  LET ws == ItemsWords(f.items) IN
  CASE f.end = "close" -> IF ws = <<>> THEN ws ELSE SubSeq(ws, 1, Len(ws) - 1)
    [] f.end = "comma" -> ws
    [] f.end = "rest" -> ws \o <<wRestC>>
ArrayFormSource(f) ==
  Join(<<wLet, <<"[">>>> \o ArrayFormWords(f) \o <<<<"]">>, <<"=">>, <<"a">>>>)
ArrayPatternSources == {ArrayFormSource(f) : f \in ArrayForms}

\* Switch statements: each clause is "case a :" or "default :" followed by
\* its statements, "a ;" with its semicolon and "b" without one.
wSwitch == <<"s", "w", "i", "t", "c", "h">>
wCase == <<"c", "a", "s", "e">>
wDefault == <<"d", "e", "f", "a", "u", "l", "t">>
StatementWords(name) ==
  IF name = "a" THEN <<<<"a">>, <<";">>>> ELSE <<<<name>>>>
RECURSIVE StatementsWords(_)
StatementsWords(names) ==
  IF names = <<>> THEN <<>>
  ELSE StatementWords(Head(names)) \o StatementsWords(Tail(names))
ClauseBodies == {<<>>, <<"b", "a">>}
ClauseForms == [isDefault : BOOLEAN, body : ClauseBodies]
ClauseWords(c) ==
  (IF c.isDefault THEN <<wDefault, <<":">>>> ELSE <<wCase, <<"a">>, <<":">>>>)
    \o StatementsWords(c.body)
RECURSIVE ClausesWords(_)
ClausesWords(cs) ==
  IF cs = <<>> THEN <<>> ELSE ClauseWords(Head(cs)) \o ClausesWords(Tail(cs))
SwitchForms == SeqsUpTo(ClauseForms, MaxClauses)
SwitchFormSource(cs) ==
  Join(<<wSwitch, <<"(">>, <<"a">>, <<")">>, <<"{">>>> \o ClausesWords(cs) \o <<<<"}">>>>)
SwitchSources == {SwitchFormSource(cs) : cs \in SwitchForms}

\* Try statements: a block, then a handler or none, then a finalizer or none,
\* then a statement or none.
wTry == <<"t", "r", "y">>
wCatch == <<"c", "a", "t", "c", "h">>
wFinally == <<"f", "i", "n", "a", "l", "l", "y">>
TryForms == [handler : BOOLEAN, finalizer : BOOLEAN, then : BOOLEAN]
TryFormSource(f) ==
  Join(<<wTry, <<"{">>, <<"a">>, <<";">>, <<"}">>>>
       \o (IF f.handler
           THEN <<wCatch, <<"(">>, <<"e">>, <<")">>, <<"{">>, <<"b">>, <<"}">>>>
           ELSE <<>>)
       \o (IF f.finalizer THEN <<wFinally, <<"{">>, <<"}">>>> ELSE <<>>)
       \o (IF f.then THEN <<<<"a">>, <<";">>>> ELSE <<>>))
\* a try statement inside a handler, and handlers that bind a pattern or nothing
OtherTrySources ==
  {Join(<<wTry, <<"{">>, <<"}">>, wCatch, <<"(">>, <<"[">>, <<"a">>, <<"]">>, <<")">>,
          <<"{">>, wTry, <<"{">>, <<"}">>, wFinally, <<"{">>, <<"}">>, <<"}">>>>),
   Join(<<wTry, <<"{">>, <<"}">>, wCatch, <<"{">>, <<"}">>>>),
   Join(<<wTry, <<"{">>, <<"}">>, wFinally>>),
   Join(<<wTry, <<"a">>>>)}
TrySources == {TryFormSource(f) : f \in TryForms} \cup OtherTrySources

\* Throw statements: the keyword, a gap that stays on the line or leaves it,
\* an expression, and a semicolon or none.
wThrow == <<"t", "h", "r", "o", "w">>
SameLineGaps ==
  {<<" ">>, <<" ", " ">>, <<" ", "/", "*", "a", "*", "/", " ">>}
LaterLineGaps ==
  {<<LF>>, <<CR>>, <<CR, LF>>, <<" ", LF, LF, " ">>, <<" ", "/", "/", "a", LF>>,
   <<" ", "/", "*", LF, "*", "/", " ">>}
ThrownExpressions ==
  {[text |-> <<"a">>, kind |-> "Identifier"],
   [text |-> <<"1">>, kind |-> "NumberLiteral"],
   [text |-> <<"a", " ", "+", LF, "b">>, kind |-> "BinaryExpression"],
   [text |-> <<"n", "e", "w", " ", "a">>, kind |-> "NewExpression"],
   [text |-> <<"a", "(", ")">>, kind |-> "CallExpression"]}
ThrowForms ==
  [gap : SameLineGaps \cup LaterLineGaps, thrown : ThrownExpressions,
   semicolon : BOOLEAN]
ThrowFormSource(f) ==
  wThrow \o f.gap \o f.thrown.text \o (IF f.semicolon THEN <<";">> ELSE <<>>)
ThrowSources == {ThrowFormSource(f) : f \in ThrowForms}

\* Two statements, the first written without its semicolon, separated by a
\* blank or by a line terminator; the second begins with an identifier or
\* with a statement keyword.
wVar == <<"v", "a", "r">>
wIf == <<"i", "f">>
wWhile == <<"w", "h", "i", "l", "e">>
wReturn == <<"r", "e", "t", "u", "r", "n">>
wBreak == <<"b", "r", "e", "a", "k">>
wContinue == <<"c", "o", "n", "t", "i", "n", "u", "e">>
wDebugger == <<"d", "e", "b", "u", "g", "g", "e", "r">>
FirstStatements ==
  {<<"a">>, <<"a", " ", "=", " ", "1">>, <<"a", "(", ")">>, <<"a", "+", "+">>,
   wLet \o <<" ", "a", " ", "=", " ", "1">>, wVar \o <<" ", "a">>,
   wThrow \o <<" ", "a">>, wDebugger, wBreak, wContinue, wReturn,
   wReturn \o <<" ", "a">>, wIf \o <<"(", "a", ")", "a">>}
SecondStatements ==
  {<<"b">>, <<"b", " ", "=", " ", "1">>, <<"b", ":", "a">>, wLet \o <<" ", "b">>,
   wIf \o <<"(", "a", ")", "b">>, wWhile \o <<"(", "a", ")", "b">>, wReturn,
   wDebugger, wThrow \o <<" ", "b">>, wFunction \o <<" ", "f", "(", ")", "{", "}">>}
StatementGaps == {<<" ">>, <<LF>>}
StatementPairs ==
  [first : FirstStatements, gap : StatementGaps, second : SecondStatements]
WithoutSemicolon(f) == f.first \o f.gap \o f.second
WithSemicolon(f) == f.first \o <<";">> \o f.gap \o f.second
StatementPairSources == {WithoutSemicolon(f) : f \in StatementPairs}


\* Variable statements: var, let or const, then up to MaxDeclarators bindings
\* x, y, z, .. separated by commas, each with the initializer "= 1" or none,
\* closed by a semicolon or by the end of the source.
MaxDeclarators == 3
wConst == <<"c", "o", "n", "s", "t">>
DeclaratorNames == <<"x", "y", "z", "w", "v">>
DeclarationKinds == {[word |-> wVar, kind |-> "var"], [word |-> wLet, kind |-> "let"],
                     [word |-> wConst, kind |-> "const"]}
DeclarationForms ==
  [kind : DeclarationKinds, inits : SeqsUpTo(BOOLEAN, MaxDeclarators) \ {<<>>},
   semi : BOOLEAN]
RECURSIVE DeclaratorsWords(_, _)
\* the words of the declarators from the i-th on, a comma before each but the first
DeclaratorsWords(inits, i) ==
  IF i > Len(inits) THEN <<>>
  ELSE (IF i = 1 THEN <<>> ELSE <<<<",">>>>)
         \o <<<<DeclaratorNames[i]>>>>
         \o (IF inits[i] THEN <<<<"=">>, <<"1">>>> ELSE <<>>)
         \o DeclaratorsWords(inits, i + 1)
DeclarationSource(f) ==
  Join(<<f.kind.word>> \o DeclaratorsWords(f.inits, 1)
         \o (IF f.semi THEN <<<<";">>>> ELSE <<>>))
DeclarationSources == {DeclarationSource(f) : f \in DeclarationForms}

\* "new a" and then a chain of member accesses, ". b" or "[ 1 ]", with no
\* argument list anywhere.
MemberLinks == {<<<<".">>, <<"b">>>>, <<<<"[">>, <<"1">>, <<"]">>>>}
NewMemberForms == SeqsUpTo(MemberLinks, MaxChain) \ {<<>>}
NewMemberSource(c) == Join(<<wNew, <<"a">>>> \o Flatten(c))
NewMemberSources == {NewMemberSource(c) : c \in NewMemberForms}

\* One binary operator between two names.
InfixSource(op) == Join(<<<<"a">>, op.lexeme, <<"b">>>>)
InfixSources == {InfixSource(op) : op \in BinaryOperators}

\* One source for each token kind with a prefix rule, the token first, and
\* for each kind with an infix rule, the token second.
PrefixSamples ==
  {[lexeme |-> <<"a">>, kind |-> "IDENT"], [lexeme |-> <<"1">>, kind |-> "NUMBER"],
   [lexeme |-> <<"\"", "a", "\"">>, kind |-> "STRING"],
   [lexeme |-> <<"t", "r", "u", "e">>, kind |-> "TRUE"],
   [lexeme |-> <<"f", "a", "l", "s", "e">>, kind |-> "FALSE"],
   [lexeme |-> <<"n", "u", "l", "l">>, kind |-> "NULL"],
   [lexeme |-> <<"(">>, kind |-> "LPAREN"], [lexeme |-> <<"!">>, kind |-> "LOGICAL_NOT"],
   [lexeme |-> <<"~">>, kind |-> "BITWISE_NOT"], [lexeme |-> <<"-">>, kind |-> "MINUS"],
   [lexeme |-> <<"+">>, kind |-> "PLUS"], [lexeme |-> <<"+", "+">>, kind |-> "INCREMENT"],
   [lexeme |-> <<"-", "-">>, kind |-> "DECREMENT"],
   [lexeme |-> <<"[">>, kind |-> "LBRACKET"], [lexeme |-> <<"{">>, kind |-> "LBRACE"],
   [lexeme |-> <<"/", "x", "/">>, kind |-> "REGEXP"], [lexeme |-> wThis, kind |-> "THIS"],
   [lexeme |-> <<"s", "u", "p", "e", "r">>, kind |-> "SUPER"],
   [lexeme |-> <<"t", "y", "p", "e", "o", "f">>, kind |-> "TYPEOF"],
   [lexeme |-> <<"v", "o", "i", "d">>, kind |-> "VOID"],
   [lexeme |-> <<"d", "e", "l", "e", "t", "e">>, kind |-> "DELETE"],
   [lexeme |-> wNew, kind |-> "NEW"]}
InfixSamples ==
  {op \in MultiCharOperators \cup BinaryOperators : op.kind \in InfixTokens}
    \cup {[lexeme |-> <<"=">>, kind |-> "ASSIGN"], [lexeme |-> <<"(">>, kind |-> "LPAREN"],
          [lexeme |-> <<".">>, kind |-> "DOT"], [lexeme |-> <<"[">>, kind |-> "LBRACKET"],
          [lexeme |-> <<"?">>, kind |-> "QUESTION"], [lexeme |-> <<",">>, kind |-> "COMMA"]}
PrefixSampleSource(s) == Join(<<s.lexeme, <<"x">>>>)
InfixSampleSource(s) == Join(<<<<"a">>, s.lexeme, <<"b">>>>)
BitwiseNotSource == <<"~", "x">>
RuleSampleSources ==
  {PrefixSampleSource(s) : s \in PrefixSamples}
    \cup {InfixSampleSource(s) : s \in InfixSamples} \cup {BitwiseNotSource}

\* String literals: a quote of either kind, up to MaxStringPieces pieces, each
\* a plain character or a backslash and the character it escapes, and the
\* same quote again.
MaxStringPieces == 2
Quotes == {"\"", "'"}
StringPieces ==
  {<<"a">>, <<Backslash, "n">>, <<Backslash, "q">>, <<Backslash, "\"">>,
   <<Backslash, "'">>}
StringForms == [quote : Quotes, pieces : SeqsUpTo(StringPieces, MaxStringPieces)]
StringSource(f) == <<f.quote>> \o Flatten(f.pieces) \o <<f.quote>>
StringSources == {StringSource(f) : f \in StringForms}

\* break or continue, a gap that stays on the line or leaves it, and the
\* identifier b, with or without a semicolon.
JumpWords == {[word |-> wBreak, kind |-> "BreakStatement"],
              [word |-> wContinue, kind |-> "ContinueStatement"]}
JumpForms == [jump : JumpWords, gap : SameLineGaps \cup LaterLineGaps, semicolon : BOOLEAN]
JumpFormSource(f) ==
  f.jump.word \o f.gap \o <<"b">> \o (IF f.semicolon THEN <<";">> ELSE <<>>)
JumpSources == {JumpFormSource(f) : f \in JumpForms}
ParserSources ==
  WordSources \cup RecoverySources \cup NewChainSources \cup UpdateSources
    \cup SampleSources \cup TargetSources \cup RestSources
    \cup NewArgumentSources \cup PrecedenceSources
    \cup RightAssociativeSources \cup ArrayPatternSources
    \cup SwitchSources \cup TrySources
    \cup ThrowSources \cup StatementPairSources
    \cup DeclarationSources \cup NewMemberSources \cup InfixSources
    \cup RuleSampleSources \cup StringSources \cup JumpSources

----------------------------------------------------------------------------
(* The stand-alone lexer: one action per NextToken call *)

\* New(src) for one of the sources
LexerStart(sources) ==
  /\ \E src \in sources : lx = LexerNew(src)
  /\ lastTok = ZeroToken
  /\ emitted = <<>>
  /\ ps = NoParser
  /\ programBody = <<>>
  /\ pc = "lexing"
  /\ ret = NoParser
  /\ turn = 0
  /\ twin = NoParser
  /\ envs = <<>>
  /\ call = NoCall

InitLexer == LexerStart(LexSources)
InitLexerLive == LexerStart(LexLiveSources)

NextTokenCall ==
  /\ pc = "lexing"
  /\ LET r == NextToken(lx) IN
       /\ lx' = r.l
       /\ lastTok' = r.tok
       /\ emitted' = IF Len(emitted) < MaxEmitted THEN Append(emitted, r.tok) ELSE emitted
  /\ turn' = 1 - turn
  /\ UNCHANGED <<ps, programBody, pc, ret, twin, envs, call>>

LexerNext == NextTokenCall

LexerSpec == InitLexer /\ [][LexerNext]_vars

\* A call of NextToken, seen through turn alone: NextToken can always be
\* called, and NextTokenCall is the only step that flips turn.
NextTokenCalled == pc = "lexing" /\ turn' = 1 - turn

\* The caller keeps calling NextToken.
LexerLive == InitLexerLive /\ [][LexerNext]_vars /\ WF_turn(NextTokenCalled)

----------------------------------------------------------------------------
(* The parser: New(src) followed by ParseProgram *)

\* New(src) for one of the sources, about to run ParseProgram
ParserStart(sources) ==
  /\ \E src \in sources : ps = ParserNew(src)
  /\ programBody = <<>>
  /\ pc = "loop"
  /\ ret = NoParser
  /\ lx = NoParser
  /\ lastTok = ZeroToken
  /\ emitted = <<>>
  /\ turn = 0
  /\ twin = NoParser
  /\ envs = <<>>
  /\ call = NoCall

InitParser == ParserStart(ParserSources)
InitParserLive == ParserStart(ParserLiveSources)

ParserNext == ParseStatementStep \/ BlockLoopSpin \/ ParseProgramReturn

ParserSpec == InitParser /\ [][ParserNext]_vars

\* A step of ParseProgram, seen through turn alone: until ParseProgram has
\* returned or panicked one of its steps is possible, and each flips turn.
ParseProgramRuns == pc \in {"loop", "diverged"} /\ turn' = 1 - turn

\* ParseProgram runs on one goroutine, which is never suspended for ever.
ParserLive ==
  /\ InitParserLive
  /\ [][ParserNext]_vars
  /\ WF_turn(ParseProgramRuns)


----------------------------------------------------------------------------
(* Two lexers over one source, each called in its own time *)

TwinStart(sources) ==
  /\ \E src \in sources :
       /\ lx = LexerNew(src)
       /\ twin = [l |-> LexerNew(src), emitted |-> <<>>]
  /\ lastTok = ZeroToken
  /\ emitted = <<>>
  /\ ps = NoParser
  /\ programBody = <<>>
  /\ pc = "lexing"
  /\ ret = NoParser
  /\ turn = 0
  /\ envs = <<>>
  /\ call = NoCall

InitTwin == TwinStart(TwinSources)

\* a NextToken call on the second lexer
TwinNextTokenCall ==
  /\ pc = "lexing"
  /\ twin # NoParser
  /\ Len(twin.emitted) < MaxTwinTokens
  /\ LET r == NextToken(twin.l) IN
       twin' = [l |-> r.l, emitted |-> Append(twin.emitted, r.tok)]
  /\ UNCHANGED <<lx, lastTok, emitted, ps, programBody, pc, ret, turn, envs, call>>

TwinNext == NextTokenCall \/ TwinNextTokenCall

TwinSpec == InitTwin /\ [][TwinNext]_vars

----------------------------------------------------------------------------
(* The environments: one action per constructor and per method *)

InitEnv ==
  /\ envs = NewEnvironment(<<>>, 0)
  /\ call = Call("NewEnvironment", 1, "", NoKind, Undefined,
                 Outcome(NewEnvironment(<<>>, 0), Undefined, NoError))
  /\ pc = "vm"
  /\ lx = NoParser
  /\ lastTok = ZeroToken
  /\ emitted = <<>>
  /\ ps = NoParser
  /\ programBody = <<>>
  /\ ret = NoParser
  /\ turn = 0
  /\ twin = NoParser

\* what a call op on the environment e leaves behind
Called(op, e, name, kind, arg, out) ==
  /\ envs' = out.heap
  /\ call' = Call(op, e, name, kind, arg, out)
  /\ UNCHANGED <<lx, lastTok, emitted, ps, programBody, pc, ret, turn, twin>>

\* NewEnvironment(outer), outer the latest environment
NewEnvironmentCall ==
  /\ pc = "vm" /\ Len(envs) < MaxEnvs
  /\ Called("NewEnvironment", Len(envs) + 1, "", NoKind, Undefined,
            Outcome(NewEnvironment(envs, Len(envs)), Undefined, NoError))

\* NewVariableEnvironment(outer), outer the latest environment
NewVariableEnvironmentCall ==
  /\ pc = "vm" /\ Len(envs) < MaxEnvs
  /\ Called("NewVariableEnvironment", Len(envs) + 1, "", NoKind, Undefined,
            Outcome(NewVariableEnvironment(envs, Len(envs)), Undefined, NoError))

DeclareCall ==
  /\ pc = "vm"
  /\ \E e \in 1 .. Len(envs), name \in EnvNames, kind \in BindingKinds :
       /\ Bindings(Environment_Declare(envs, e, name, kind).heap) <= MaxBindings
       /\ Called("Declare", e, name, kind, Undefined,
                 Environment_Declare(envs, e, name, kind))

InitializeCall ==
  /\ pc = "vm"
  /\ \E e \in 1 .. Len(envs), name \in EnvNames, value \in InitialValues :
       Called("Initialize", e, name, NoKind, value,
              Environment_Initialize(envs, e, name, value))

GetCall ==
  /\ pc = "vm"
  /\ \E e \in 1 .. Len(envs), name \in EnvNames :
       Called("Get", e, name, NoKind, Undefined, Environment_Get(envs, e, name))

SetCall ==
  /\ pc = "vm"
  /\ \E e \in 1 .. Len(envs), name \in EnvNames, value \in AssignedValues :
       Called("Set", e, name, NoKind, value, Environment_Set(envs, e, name, value))

EnvNext ==
  \/ NewEnvironmentCall
  \/ NewVariableEnvironmentCall
  \/ DeclareCall
  \/ InitializeCall
  \/ GetCall
  \/ SetCall

EnvSpec == InitEnv /\ [][EnvNext]_vars
----------------------------------------------------------------------------
(* Properties of the lexer *)

\* how many of the tokens emitted strictly between positions j and i have kind tt
CountBetween(j, i, tt) == Cardinality({k \in (j + 1) .. (i - 1) : emitted[k].Type = tt})

\* Position j holds the TemplateExprStart that the token at position i closes
\* or would close: the latest one before i, with no template token between.
OpensInterpolation(j, i) ==
  /\ j < i
  /\ emitted[j].Type = "TEMPLATE_EXPR_START"
  /\ \A k \in (j + 1) .. (i - 1) :
       emitted[k].Type \notin {"TEMPLATE_EXPR_START", "TEMPLATE_EXPR_END",
                               "TEMPLATE_HEAD", "TEMPLATE_MIDDLE", "TEMPLATE_TAIL"}

\* C3: for every finite source, repeated NextToken calls return an end-of-input
\* token after finitely many calls: the lexer does not emit Illegal for ever.
C3_EventuallyEOF == <>(lastTok.Type = "EOF")

\* C5: inside an interpolation every plain brace lexes as LBrace or RBrace, so
\* the TemplateExprEnd of an interpolation is emitted only when the LBrace and
\* RBrace tokens since its TemplateExprStart pair up.
C5_BracesPairUp ==
  \A i \in 1 .. Len(emitted) : \A j \in 1 .. Len(emitted) :
    (emitted[i].Type = "TEMPLATE_EXPR_END" /\ OpensInterpolation(j, i))
      => CountBetween(j, i, "LBRACE") = CountBetween(j, i, "RBRACE")

\* C7: a fatal lexical condition is surfaced as exactly one Illegal token: when
\* NextToken returns an Illegal token, no error is left recorded to be returned
\* as a further Illegal token.
C7_OneIllegalPerError == lastTok.Type = "ILLEGAL" => lx.err = NoErr

\* The kinds the flag is stated for: regular-expression and template tokens are
\* left out, since "literal" may or may not be meant to cover them.
PlainKind(tt) ==
  tt \notin {"REGEXP", "TEMPLATE_HEAD", "TEMPLATE_MIDDLE", "TEMPLATE_TAIL",
             "TEMPLATE_EXPR_START", "TEMPLATE_EXPR_END"}

\* C8: after every emitted token the can-start-regex flag is false after an
\* identifier, a literal, ")", "]", "++" and "--", and true after every other
\* kind of token.
C8_RegexFlagByKind ==
  (emitted # <<>> /\ PlainKind(lastTok.Type))
    => (lx.canStartRegex
          <=> lastTok.Type \notin {"IDENT", "NUMBER", "STRING", "TRUE", "FALSE", "NULL",
                                   "RPAREN", "RBRACKET", "INCREMENT", "DECREMENT"})

\* C9: once NextToken has returned an end-of-input token, every later call
\* returns an end-of-input token with the same start and end.
C9_EOFIsStable ==
  [][lastTok.Type = "EOF"
       => (lastTok'.Type = "EOF" /\ lastTok'.Start = lastTok.Start
             /\ lastTok'.End = lastTok.End)]_vars

\* NextToken was called twice more after the end of a source with tokens in it.
C9_CalledAgainAtEOF ==
  /\ Len(emitted) >= 4
  /\ emitted[1].Type # "EOF"
  /\ \A k \in (Len(emitted) - 2) .. Len(emitted) : emitted[k].Type = "EOF"
  /\ lastTok.Type = "EOF"
  /\ lastTok.Start.Offset = Len(lx.src)

----------------------------------------------------------------------------
(* Properties of the parser *)

\* the nodes a node holds, absent ones left out
Children(n) ==
  LET all ==
        CASE n.kind = "Program" -> n.Body
          [] n.kind = "MemberExpression" -> <<n.Object, n.Property>>
          [] n.kind \in {"CallExpression", "NewExpression"} ->
               <<n.Callee>> \o n.Arguments.elems
          [] n.kind \in {"BinaryExpression", "LogicalExpression",
                         "AssignmentExpression", "AssignmentPattern"} ->
               <<n.Left, n.Right>>
          [] n.kind \in {"UnaryExpression", "UpdateExpression", "SpreadElement",
                         "ReturnStatement", "ThrowStatement"} -> <<n.Argument>>
          [] n.kind = "ExpressionStatement" -> <<n.Expression>>
          [] n.kind = "VariableDeclaration" -> n.Declarations
          [] n.kind = "VariableDeclarator" -> <<n.ID, n.Init>>
          [] n.kind = "SequenceExpression" -> n.Expressions
          [] n.kind = "ArrayLiteral" -> n.Elements
          [] n.kind = "ObjectLiteral" -> n.Properties
          [] n.kind = "ObjectProperty" -> <<n.Key, n.Value>>
          [] n.kind = "ConditionalExpression" -> <<n.Test, n.Consequent, n.Alternate>>
          [] n.kind = "BlockStatement" -> n.Body
          [] n.kind = "IfStatement" -> <<n.Test, n.Consequent, n.Alternate>>
          [] n.kind = "WhileStatement" -> <<n.Test, n.Body>>
          [] n.kind = "LabeledStatement" -> <<n.Label, n.Body>>
          [] n.kind \in {"BreakStatement", "ContinueStatement"} -> <<n.Label>>
          [] n.kind = "MetaProperty" -> <<n.Meta, n.Property>>
          [] n.kind = "RestElement" -> <<n.Argument>>
          [] n.kind = "ArrayPattern" -> n.Elements \o <<n.Rest>>
          [] n.kind = "ObjectPattern" -> n.Properties \o <<n.Rest>>
          [] n.kind = "ObjectPatternProperty" -> <<n.Key, n.Value>>
          [] n.kind = "FunctionDeclaration" -> <<n.ID>> \o n.Params \o <<n.Body>>
          [] n.kind = "SwitchStatement" -> <<n.Discriminant>> \o n.Cases
          [] n.kind = "SwitchCase" -> <<n.Test>> \o n.Consequent
          [] n.kind = "TryStatement" -> <<n.Block, n.Handler, n.Finalizer>>
          [] n.kind = "CatchClause" -> <<n.Param, n.Body>>
          [] OTHER -> <<>>
      present(c) == ~IsNil(c)
  IN SelectSeq(all, present)

\* the span outer contains the span inner
Contains(outer, inner) ==
  outer.Start.Offset <= inner.Start.Offset /\ inner.End.Offset <= outer.End.Offset

RECURSIVE WellSpanned(_)
\* n and every node below it start no later than they end and contain their children
WellSpanned(n) ==
  /\ n.loc.Start.Offset <= n.loc.End.Offset
  /\ \A i \in 1 .. Len(Children(n)) :
       Contains(n.loc, Children(n)[i].loc) /\ WellSpanned(Children(n)[i])

RECURSIVE NewCount(_), NewCountIn(_)
\* the number of NewExpression nodes in the tree n, and in the trees ns
NewCount(n) == (IF n.kind = "NewExpression" THEN 1 ELSE 0) + NewCountIn(Children(n))
NewCountIn(ns) == IF ns = <<>> THEN 0 ELSE NewCount(Head(ns)) + NewCountIn(Tail(ns))

RECURSIVE ChainBase(_)
\* the node under the calls and member accesses of a chain
ChainBase(n) ==
  CASE n.kind = "CallExpression" -> ChainBase(n.Callee)
    [] n.kind = "MemberExpression" -> ChainBase(n.Object)
    [] OTHER -> n

\* the statement "foo ( ) ;", "foo ;" or "foo = 1 ;"
IsLaterStatement(s) ==
  /\ s.kind = "ExpressionStatement"
  /\ LET e == s.Expression IN
       \/ e.kind = "Identifier" /\ e.Name = wFoo
       \/ e.kind = "CallExpression" /\ e.Callee.kind = "Identifier" /\ e.Callee.Name = wFoo
       \/ e.kind = "AssignmentExpression" /\ e.Left.kind = "Identifier"
            /\ e.Left.Name = wFoo

\* C1: ParseProgram on a source whose first statement is malformed and whose
\* later statement is well-formed returns both a non-empty error list and a
\* Program whose body contains the later statement.
C1_ErrorsAndProgram ==
  (pc = "returned" /\ ps.lex.src \in RecoverySources)
    => /\ Len(ret.err) > 0
       /\ ~IsNil(ret.program)
       /\ \E i \in 1 .. Len(ret.program.Body) : IsLaterStatement(ret.program.Body[i])

\* C2: ParseProgram terminates on every finite source: its statement loop
\* reaches the end-of-input token after finitely many iterations.
C2_ParseProgramTerminates == <>(pc \in {"returned", "panicked"})

\* C4: no infix or postfix parse rule is ever invoked with a nil left operand,
\* and no syntax error crashes ParseProgram.
C4_NoNilLeftOperand == ~ps.nilLeft /\ pc # "panicked"

\* C6: "new", a callee, an argument list and a further chain of member accesses
\* and calls parse to exactly one NewExpression, of that callee and that first
\* argument list, with the rest of the chain as member and call nodes above it.
C6_OneNewExpression ==
  (pc = "returned" /\ ps.lex.src \in NewChainSources)
    => /\ Len(programBody) = 1
       /\ programBody[1].kind = "ExpressionStatement"
       /\ NewCount(programBody[1]) = 1
       /\ LET n == ChainBase(programBody[1].Expression) IN
            /\ n.kind = "NewExpression"
            /\ n.Callee.kind = "Identifier" /\ n.Callee.Name = wFoo
            /\ Len(n.Arguments.elems) = 1
            /\ n.Arguments.elems[1].kind = "NumberLiteral"

\* C10: every node the parser builds starts no later than it ends, and the
\* span of every parent contains the span of each of its children.
C10_SpansNest ==
  /\ \A i \in 1 .. Len(programBody) : WellSpanned(programBody[i])
  /\ (pc = "returned" /\ ~IsNil(ret.program)) => WellSpanned(ret.program)


RECURSIVE Addrs(_), AddrsIn(_)
\* the addresses of the nodes of the tree n, one per reference to a node, and
\* those of the trees ns
Addrs(n) == <<n.addr>> \o AddrsIn(Children(n))
AddrsIn(ns) == IF ns = <<>> THEN <<>> ELSE Addrs(Head(ns)) \o AddrsIn(Tail(ns))

\* no address occurs twice in as
Distinct(as) == Cardinality({as[i] : i \in 1 .. Len(as)}) = Len(as)

\* C11: in every AST built by the parser no node is shared or aliased: each
\* node is referenced from exactly one field of exactly one parent node, and
\* the node graph has no cycles.
C11_NoNodeShared == Distinct(AddrsIn(programBody))

\* C12: ParseProgram returns success (a Program and no error) if and only if
\* no syntax error was recorded during the parse; whenever at least one error
\* was recorded it returns the joined list of all recorded errors.
C12_SuccessIffNoErrors ==
  pc = "returned"
    => /\ (ret.err = <<>> /\ ~IsNil(ret.program)) <=> (Len(ps.errors) = 0)
       /\ Len(ps.errors) > 0 => ret.err = ps.errors /\ IsNil(ret.program)

\* ParseProgram has returned after recording two errors or more
C12_ReturnedSeveralErrors ==
  pc = "returned" /\ Len(ps.errors) > 1 /\ Len(programBody) > 0

RECURSIVE NodesOf(_), NodesIn(_)
\* the nodes of the tree n in pre-order, and those of the trees ns
NodesOf(n) == <<n>> \o NodesIn(Children(n))
NodesIn(ns) == IF ns = <<>> THEN <<>> ELSE NodesOf(Head(ns)) \o NodesIn(Tail(ns))

\* the node that n assigns to or updates, absent when n does neither
TargetOf(n) ==
  CASE n.kind = "AssignmentExpression" -> n.Left
    [] n.kind = "UpdateExpression" -> n.Argument
    [] OTHER -> Nil

InvalidTargetErrors ==
  {<<"invalid assignment target">>, <<"invalid update target">>}

\* C13: in every AST built by the parser, the left side of each
\* AssignmentExpression and the operand of each prefix or postfix
\* UpdateExpression is an Identifier or a MemberExpression; any other
\* expression in that position records a syntax error and produces no node.
C13_TargetsAreAssignable ==
  LET nodes == NodesIn(programBody) IN
  /\ \A i \in 1 .. Len(nodes) :
       ~IsNil(TargetOf(nodes[i]))
         => TargetOf(nodes[i]).kind \in {"Identifier", "MemberExpression"}
  /\ (pc \in {"returned", "panicked"} /\ ps.lex.src \in BadTargetSources)
       => /\ \E i \in 1 .. Len(ps.errors) : ps.errors[i] \in InvalidTargetErrors
          /\ \A i \in 1 .. Len(nodes) : IsNil(TargetOf(nodes[i]))

\* ParseProgram has returned with a node for the assignment it accepted and
\* an error for the one it refused
C13_AcceptedAndRefused ==
  /\ pc = "returned"
  /\ ps.lex.src \in MixedTargetSources
  /\ \E i \in 1 .. Len(programBody) :
       /\ programBody[i].kind = "ExpressionStatement"
       /\ programBody[i].Expression.kind = "AssignmentExpression"
       /\ programBody[i].Expression.Left.kind = "Identifier"
  /\ ps.errors = <<<<"invalid assignment target">>>>

\* the rest elements among the members ns
RestsIn(ns) == {i \in 1 .. Len(ns) : ns[i].kind = "RestElement"}

\* the pattern or parameter list n has at most one rest element, and it is last
RestLast(n) ==
  CASE n.kind \in {"ArrayPattern", "ObjectPattern"} ->
         LET members == IF n.kind = "ArrayPattern" THEN n.Elements ELSE n.Properties IN
         /\ RestsIn(members) = {}
         /\ n.Rest.kind \in {"nil", "RestElement"}
         /\ ~IsNil(n.Rest)
              => \A i \in 1 .. Len(members) :
                   ~IsNil(members[i])
                     => members[i].loc.End.Offset <= n.Rest.loc.Start.Offset
    [] n.kind = "FunctionDeclaration" -> RestsIn(n.Params) \subseteq {Len(n.Params)}
    [] OTHER -> TRUE

RestErrors ==
  {<<"rest element must be last in array pattern">>,
   <<"rest element must be last in object pattern">>,
   <<"expected next token to be", "RPAREN", "got", "COMMA">>}

\* C14: in array patterns, object patterns and function parameter lists, a
\* rest element followed by another binding, or a second rest element, records
\* a syntax error and produces no pattern; every pattern that is produced has
\* at most one rest element, and it is last.
C14_RestElementIsLast ==
  LET nodes == NodesIn(programBody) IN
  /\ \A i \in 1 .. Len(nodes) : RestLast(nodes[i])
  /\ (pc \in {"returned", "panicked"} /\ ps.lex.src \in BadRestSources)
       => /\ Len(ps.errors) > 0 /\ ps.errors[1] \in RestErrors
          /\ \A i \in 1 .. Len(nodes) :
               nodes[i].kind \notin {"ArrayPattern", "ObjectPattern", "RestElement",
                                     "FunctionDeclaration"}

\* ParseProgram has returned with a pattern that ends in a rest element and
\* an error for the pattern whose rest element was not last
C14_RestKeptAndRefused ==
  /\ pc = "returned"
  /\ ps.lex.src \in NestedPatternSources
  /\ \E i \in 1 .. Len(ps.errors) : ps.errors[i] \in RestErrors
  /\ LET nodes == NodesIn(programBody) IN
       \E i \in 1 .. Len(nodes) :
         nodes[i].kind = "ArrayPattern" /\ ~IsNil(nodes[i].Rest)
           /\ Len(nodes[i].Elements) > 1

\* the NewExpression that is the only statement of the program, when it is
NewExpressionParsed ==
  IF Len(programBody) = 1 /\ programBody[1].kind = "ExpressionStatement"
       /\ programBody[1].Expression.kind = "NewExpression"
  THEN programBody[1].Expression
  ELSE Nil

\* C15: parsing "new Foo" (no argument list) yields a NewExpression whose
\* arguments are absent, and parsing "new Foo()" yields a NewExpression whose
\* arguments are present and empty; the two results are distinguishable.
C15_AbsentOrEmptyArguments ==
  /\ (pc = "returned" /\ ps.lex.src = NewFoo)
       => ~IsNil(NewExpressionParsed) /\ NewExpressionParsed.Arguments.isNil
  /\ (pc = "returned" /\ ps.lex.src = NewFooEmpty)
       => /\ ~IsNil(NewExpressionParsed)
          /\ ~NewExpressionParsed.Arguments.isNil
          /\ NewExpressionParsed.Arguments.elems = <<>>

\* the token t is a template chunk that ends at "${"
EndsAtInterpolation(t) == t.Type \in {"TEMPLATE_HEAD", "TEMPLATE_MIDDLE"}

\* the token t starts right after a backtick of the source
FollowsBacktick(t) == t.Start.Offset > 0 /\ lx.src[t.Start.Offset] = Backtick

\* C16: the fragment emitted before the first "${" after an opening backtick
\* is always a TemplateHead, including when that backtick opens a template
\* nested inside another template's interpolation; TemplateMiddle is emitted
\* only for a chunk that resumes after a TemplateExprEnd.
C16_HeadAfterBacktick ==
  \A i \in 1 .. Len(emitted) :
    /\ (EndsAtInterpolation(emitted[i]) /\ FollowsBacktick(emitted[i]))
         => emitted[i].Type = "TEMPLATE_HEAD"
    /\ emitted[i].Type = "TEMPLATE_MIDDLE"
         => i > 1 /\ emitted[i - 1].Type = "TEMPLATE_EXPR_END"

\* the tokens emitted for the source src are an operand, one token of kind
\* op.kind spelling op.lexeme, an operand and the end of input
OneOperatorToken(f, op) ==
  LET at == Len(f.before)
      opening == IF f.before[1] = "(" THEN 1 ELSE 0
      k == 2 + 2 * opening
  IN /\ \A i \in 1 .. Len(emitted) :
          emitted[i].Start.Offset < at + Len(op.lexeme) /\ emitted[i].End.Offset > at
            => /\ i = k
               /\ emitted[i].Type = op.kind
               /\ emitted[i].Literal = op.lexeme
               /\ emitted[i].Start.Offset = at
               /\ emitted[i].End.Offset = at + Len(op.lexeme)
     /\ lastTok.Type = "EOF" => Len(emitted) >= k + 2 /\ emitted[k + 2].Type = "EOF"

\* C17: every multi-character operator lexeme in the source is emitted as
\* exactly one token of its own kind, never as a sequence of shorter operator
\* tokens: "=>" lexes as one Arrow token and ">>>=" as one UnsignedShiftAssign
\* token.
C17_OneTokenPerOperator ==
  \A f \in OperatorForms : \A op \in MultiCharOperators :
    lx.src = OperatorSource(f, op) => OneOperatorToken(f, op)

\* ">>>=" has been lexed as one token and the end of input reached
C17_UnsignedShiftAssignLexed ==
  /\ lx.src = <<"a", ">", ">", ">", "=", "b">>
  /\ lastTok.Type = "EOF"
  /\ Len(emitted) = 4
  /\ emitted[2].Type = "UNSIGNED_SHIFT_ASSIGN"

\* the emitted tokens that cover the character at offset at
TokensAt(at) ==
  {i \in 1 .. Len(emitted) :
     emitted[i].Start.Offset <= at /\ at < emitted[i].End.Offset}

\* the regular expression that starts at offset at in src: "/x/" and its flags
RegexText(src, at) ==
  IF Len(src) > at + 3 /\ src[at + 4] = "g" THEN <<"/", "x", "/", "g">>
  ELSE <<"/", "x", "/">>

IsName(n, c) == n.kind = "Identifier" /\ n.Name = <<c>>

\* n applies the binary operator op to two operands
IsBinary(n, op) ==
  n.kind \in {"BinaryExpression", "LogicalExpression"} /\ n.Operator = op.lexeme

\* the expression e is (a op1 b) op2 c
GroupsLeft(e, op1, op2) ==
  /\ IsBinary(e, op2) /\ IsName(e.Right, "c")
  /\ IsBinary(e.Left, op1) /\ IsName(e.Left.Left, "a") /\ IsName(e.Left.Right, "b")

\* the expression e is a op1 (b op2 c)
GroupsRight(e, op1, op2) ==
  /\ IsBinary(e, op1) /\ IsName(e.Left, "a")
  /\ IsBinary(e.Right, op2) /\ IsName(e.Right.Left, "b") /\ IsName(e.Right.Right, "c")

\* the program is one expression statement, and this is its expression
OnlyExpression ==
  IF ret.err = <<>> /\ Len(programBody) = 1
       /\ programBody[1].kind = "ExpressionStatement"
  THEN programBody[1].Expression
  ELSE Nil

\* "a op1 b op2 c" has been parsed with the operator of higher precedence
\* binding tighter and operators of equal precedence grouping to the left
ParsedByPrecedence(op1, op2) ==
  /\ ~IsNil(OnlyExpression)
  /\ IF precedences(op2.kind) > precedences(op1.kind)
     THEN GroupsRight(OnlyExpression, op1, op2)
     ELSE GroupsLeft(OnlyExpression, op1, op2)

\* C19: for binary operators, an operator of higher precedence binds tighter
\* than one of lower precedence, and operators of equal precedence group
\* left-associatively ("a + b * c" parses as "a + (b * c)", "a - b - c" as
\* "(a - b) - c").
C19_PrecedenceAndLeftAssociativity ==
  pc = "returned"
    => \A op1 \in BinaryOperators : \A op2 \in BinaryOperators :
         ps.lex.src = PrecedenceSource(op1, op2) => ParsedByPrecedence(op1, op2)

\* n assigns with the operator op
IsAssignment(n, op) == n.kind = "AssignmentExpression" /\ n.Operator = op.lexeme

\* the expression e is a op1 (b op2 c), both of them assignments
AssignsRightFirst(e, op1, op2) ==
  /\ IsAssignment(e, op1) /\ IsName(e.Left, "a")
  /\ IsAssignment(e.Right, op2) /\ IsName(e.Right.Left, "b") /\ IsName(e.Right.Right, "c")

\* the expression e is a ? b : (c ? d : e)
ConditionalInAlternate(e) ==
  /\ e.kind = "ConditionalExpression"
  /\ IsName(e.Test, "a") /\ IsName(e.Consequent, "b")
  /\ e.Alternate.kind = "ConditionalExpression"
  /\ IsName(e.Alternate.Test, "c") /\ IsName(e.Alternate.Consequent, "d")
  /\ IsName(e.Alternate.Alternate, "e")

\* C20: assignment and the conditional operator are right-associative:
\* "a = b = c" parses as "a = (b = c)" and "a ? b : c ? d : e" parses as
\* "a ? b : (c ? d : e)".
C20_RightAssociativity ==
  (pc = "returned" /\ ps.lex.src \in RightAssociativeSources)
    => /\ \A op1 \in AssignmentOperators : \A op2 \in AssignmentOperators :
            ps.lex.src = PrecedenceSource(op1, op2)
              => ~IsNil(OnlyExpression) /\ AssignsRightFirst(OnlyExpression, op1, op2)
       /\ ps.lex.src = ConditionalChain
            => ~IsNil(OnlyExpression) /\ ConditionalInAlternate(OnlyExpression)

\* ParseProgram has returned the program of the conditional chain
C20_ConditionalChainParsed ==
  /\ pc = "returned"
  /\ ps.lex.src = ConditionalChain
  /\ ~IsNil(ret.program)
  /\ ret.program.Body[1].Expression.Alternate.kind = "ConditionalExpression"

\* the pattern bound by the only declarator of the only statement of body
OnlyPattern(body) ==
  IF Len(body) = 1 /\ body[1].kind = "VariableDeclaration"
       /\ Len(body[1].Declarations) = 1
  THEN body[1].Declarations[1].ID ELSE Nil

\* the element e is what the position it of an array pattern form stands for
IsItem(e, it) ==
  CASE it = "hole" -> IsNil(e)
    [] it = "name" -> ~IsNil(e) /\ e.kind = "Identifier" /\ e.Name = <<"a">>
    [] it = "default" ->
         /\ ~IsNil(e) /\ e.kind = "AssignmentPattern"
         /\ e.Left.kind = "Identifier" /\ e.Left.Name = <<"b">>
         /\ e.Right.kind = "NumberLiteral"

\* the array pattern pat has the elements and the rest element of the form f
IsArrayForm(pat, f) ==
  /\ ~IsNil(pat) /\ pat.kind = "ArrayPattern"
  /\ Len(pat.Elements) = Len(f.items)
  /\ \A i \in 1 .. Len(f.items) : IsItem(pat.Elements[i], f.items[i])
  /\ IF f.end = "rest"
     THEN /\ ~IsNil(pat.Rest) /\ pat.Rest.kind = "RestElement"
          /\ pat.Rest.Argument.kind = "Identifier"
          /\ pat.Rest.Argument.Name = <<"c">>
     ELSE IsNil(pat.Rest)

\* C21: an array binding pattern keeps its elements in source order with an
\* absent entry for each elided position, wraps an element followed by
\* "= expr" in an AssignmentPattern, and stores a trailing "...name" as the
\* pattern's RestElement and not as a positional element.
C21_ArrayPatternElements ==
  \A f \in ArrayForms :
    (pc = "returned" /\ ps.lex.src \in ArrayPatternSources
       /\ ps.lex.src = ArrayFormSource(f))
      => /\ ps.errors = <<>>
         /\ IsArrayForm(OnlyPattern(programBody), f)

\* the number of UTF-16 code units of the rune r
utf16Len(r) == IF r = Astral THEN 2 ELSE 1

RECURSIVE PositionAfter(_, _)
\* the position after the first n runes of src: each rune advances the column
\* by its UTF-16 length, each of LF, CR and CR LF starts a line
PositionAfter(src, n) ==
  IF n = 0 THEN Position(0, 1, 0)
  ELSE LET before == PositionAfter(src, n - 1)
           r == src[n]
       IN IF r = LF /\ n > 1 /\ src[n - 1] = CR
          THEN Position(n, before.Line, before.Column)
          ELSE IF r \in {LF, CR} THEN Position(n, before.Line + 1, 0)
          ELSE Position(n, before.Line, before.Column + utf16Len(r))

\* C22: the column of a Position advances by the number of UTF-16 code units
\* of each character consumed (2 for a character outside the Basic
\* Multilingual Plane), and each line terminator (LF, CR, or CR LF counted
\* once) resets column to 0 and increments line by exactly 1.
C22_ColumnsInUTF16Units ==
  /\ lx.chPos = PositionAfter(lx.src, lx.chPos.Offset)
  /\ lx.nextPos = PositionAfter(lx.src, lx.nextPos.Offset)

\* the statement n is the expression statement of the identifier name
IsNameStatement(n, name) ==
  /\ n.kind = "ExpressionStatement"
  /\ n.Expression.kind = "Identifier" /\ n.Expression.Name = <<name>>

\* the switch clause c is what the clause form f stands for
IsClauseForm(c, f) ==
  /\ c.kind = "SwitchCase"
  /\ IsNil(c.Test) <=> f.isDefault
  /\ Len(c.Consequent) = Len(f.body)
  /\ \A i \in 1 .. Len(f.body) : IsNameStatement(c.Consequent[i], f.body[i])

\* the number of default clauses among the clause forms cs
DefaultForms(cs) == Cardinality({i \in 1 .. Len(cs) : cs[i].isDefault})
\* the number of default clauses of the SwitchStatement n
DefaultClauses(n) == Cardinality({i \in 1 .. Len(n.Cases) : IsNil(n.Cases[i].Test)})

\* C23: a switch statement with two default clauses records a syntax error
\* and produces no node; every SwitchStatement that is produced has at most
\* one default clause, and each clause's body holds exactly the statements up
\* to the next case, default or closing brace.
C23_SwitchClauses ==
  LET nodes == NodesIn(programBody) IN
  /\ \A i \in 1 .. Len(nodes) :
       nodes[i].kind = "SwitchStatement" => DefaultClauses(nodes[i]) <= 1
  /\ (pc = "returned" /\ ps.lex.src \in SwitchSources)
       => \A cs \in SwitchForms :
         ps.lex.src = SwitchFormSource(cs)
         => IF DefaultForms(cs) > 1
            THEN /\ \E i \in 1 .. Len(ps.errors) :
                      ps.errors[i] = <<"multiple default clauses in switch">>
                 /\ \A i \in 1 .. Len(nodes) : nodes[i].kind # "SwitchStatement"
            ELSE /\ ps.errors = <<>>
                 /\ Len(programBody) = 1
                 /\ programBody[1].kind = "SwitchStatement"
                 /\ Len(programBody[1].Cases) = Len(cs)
                 /\ \A i \in 1 .. Len(cs) : IsClauseForm(programBody[1].Cases[i], cs[i])

\* ParseProgram has returned a switch statement of three clauses, the second
\* its only default, and a statement in each
C23_DefaultBetweenCases ==
  /\ pc = "returned" /\ ps.errors = <<>>
  /\ Len(programBody) = 1 /\ programBody[1].kind = "SwitchStatement"
  /\ Len(programBody[1].Cases) = 3
  /\ DefaultClauses(programBody[1]) = 1 /\ IsNil(programBody[1].Cases[2].Test)
  /\ \A i \in 1 .. 3 : Len(programBody[1].Cases[i].Consequent) > 1

\* the TryStatement n has the parts of the try form f
IsTryForm(n, f) ==
  /\ n.kind = "TryStatement"
  /\ n.Block.kind = "BlockStatement" /\ Len(n.Block.Body) = 1
  /\ IF f.handler
     THEN /\ ~IsNil(n.Handler) /\ n.Handler.kind = "CatchClause"
          /\ n.Handler.Param.kind = "Identifier" /\ n.Handler.Param.Name = <<"e">>
          /\ n.Handler.Body.kind = "BlockStatement"
     ELSE IsNil(n.Handler)
  /\ IF f.finalizer
     THEN ~IsNil(n.Finalizer) /\ n.Finalizer.kind = "BlockStatement"
     ELSE IsNil(n.Finalizer)

\* C24: a try block followed by neither catch nor finally records a syntax
\* error and produces no node; every TryStatement that is produced has a
\* handler, a finalizer, or both.
C24_TryHasHandlerOrFinalizer ==
  LET nodes == NodesIn(programBody) IN
  /\ \A i \in 1 .. Len(nodes) :
       nodes[i].kind = "TryStatement"
         => ~IsNil(nodes[i].Handler) \/ ~IsNil(nodes[i].Finalizer)
  /\ (pc = "returned" /\ ps.lex.src \in TrySources)
       => \A f \in TryForms :
         ps.lex.src = TryFormSource(f)
         => IF ~f.handler /\ ~f.finalizer
            THEN /\ \E i \in 1 .. Len(ps.errors) :
                      ps.errors[i] = <<"try statement requires catch or finally">>
                 /\ \A i \in 1 .. Len(nodes) : nodes[i].kind # "TryStatement"
            ELSE /\ ps.errors = <<>>
                 /\ Len(programBody) = (IF f.then THEN 2 ELSE 1)
                 /\ IsTryForm(programBody[1], f)

\* ParseProgram has returned a try statement with a handler and a finalizer,
\* and the statement after it
C24_TryParsedWithBoth ==
  /\ pc = "returned" /\ ps.errors = <<>> /\ Len(programBody) = 2
  /\ programBody[1].kind = "TryStatement"
  /\ ~IsNil(programBody[1].Handler) /\ ~IsNil(programBody[1].Finalizer)

\* the node n is the expression that the throw form f writes after its gap
IsThrown(n, f) ==
  /\ ~IsNil(n) /\ n.kind = f.thrown.kind
  /\ n.loc.Start.Offset = Len(wThrow) + Len(f.gap)
  /\ n.loc.End.Offset = Len(wThrow) + Len(f.gap) + Len(f.thrown.text)

\* C25: a throw whose expression starts on a later line than the throw
\* keyword records a syntax error and produces no ThrowStatement; a throw
\* whose expression starts on the same line produces a ThrowStatement with
\* that expression as its argument.
C25_ThrowOnOneLine ==
  LET nodes == NodesIn(programBody) IN
  (pc = "returned" /\ ps.lex.src \in ThrowSources)
    => \A f \in ThrowForms :
      ps.lex.src = ThrowFormSource(f)
      => IF f.gap \in LaterLineGaps
         THEN /\ \E i \in 1 .. Len(ps.errors) :
                   ps.errors[i] = <<"illegal newline after throw">>
              /\ \A i \in 1 .. Len(nodes) : nodes[i].kind # "ThrowStatement"
         ELSE /\ ps.errors = <<>>
              /\ Len(programBody) = 1
              /\ programBody[1].kind = "ThrowStatement"
              /\ IsThrown(programBody[1].Argument, f)

\* ParseProgram has returned after refusing a throw whose expression is on
\* the next line and parsing that expression as a statement of its own
C25_ThrowRefusedAcrossLines ==
  /\ pc = "returned"
  /\ ps.lex.src = wThrow \o <<CR, LF, "a", "(", ")">>
  /\ ps.errors = <<<<"illegal newline after throw">>>>
  /\ Len(programBody) = 1 /\ programBody[1].kind = "ExpressionStatement"

RECURSIVE parseProgramBody(_, _)
\* the statement loop of ParseProgram run to its end: the parser and the
\* statements it has collected
parseProgramBody(p, body) ==
  IF p.curToken.Type = "EOF" THEN [p |-> p, body |-> body]
  ELSE LET s == parseStatement(p) IN
       IF s.p.panicked \/ s.p.diverged THEN [p |-> s.p, body |-> body]
       ELSE parseProgramBody(nextToken(s.p),
                             IF IsNil(s.e) THEN body ELSE Append(body, s.e))

\* the trees ns without their spans: of each node, in pre-order, its kind,
\* the number of its children and, for an identifier, its name
Outline(ns) ==
  LET nodes == NodesIn(ns) IN
  [i \in 1 .. Len(nodes) |->
     [kind |-> nodes[i].kind, children |-> Len(Children(nodes[i])),
      name |-> IF nodes[i].kind = "Identifier" THEN nodes[i].Name ELSE <<>>]]

\* C26: a statement's trailing ";" is never required: for any two well-formed
\* statements where the second begins with an identifier or a statement
\* keyword, writing them without a ";" between them yields the same two
\* statements and no syntax error as writing them with ";".
C26_SemicolonNeverRequired ==
  \A f \in StatementPairs :
    (pc = "returned" /\ ps.lex.src \in StatementPairSources
       /\ ps.lex.src = WithoutSemicolon(f))
      => LET with == parseProgramBody(ParserNew(WithSemicolon(f)), <<>>) IN
         /\ with.p.errors = <<>> /\ Len(with.body) = 2
         /\ ps.errors = <<>>
         /\ Outline(programBody) = Outline(with.body)

RECURSIVE Resolve(_, _, _)
\* the nearest environment, from e outwards, whose record declares name; 0
\* when none does
Resolve(heap, e, name) ==
  IF HasOwn(heap, e, name) THEN e
  ELSE IF heap[e].outer # 0 THEN Resolve(heap, heap[e].outer, name)
  ELSE 0

\* the binding that name resolves to from e, which declares it on its chain
Resolved(heap, e, name) == heap[Resolve(heap, e, name)].record[name]

\* from e the name resolves to a let or const binding that is not initialized
InDeadZone(heap, e, name) ==
  /\ Resolve(heap, e, name) # 0
  /\ Resolved(heap, e, name).kind \in {"let", "const"}
  /\ ~Resolved(heap, e, name).initialized

\* C28: for a let or const binding, between Declare and Initialize every Get
\* and every Set of that name returns an error and leaves the binding
\* uninitialized; after Initialize(name, v) succeeds, Get returns v.
C28_DeadZoneUntilInitialize ==
  [][/\ (call'.op \in {"Get", "Set"} /\ InDeadZone(envs, call'.env, call'.name))
          => /\ call'.err # NoError
             /\ envs' = envs
             /\ InDeadZone(envs', call'.env, call'.name)
     /\ (call'.op = "Initialize" /\ call'.err = NoError
           /\ envs[call'.env].record[call'.name].kind \in {"let", "const"})
          => /\ Environment_Get(envs', call'.env, call'.name).err = NoError
             /\ Environment_Get(envs', call'.env, call'.name).val = call'.arg]_vars

\* Set has just been refused on an inner environment for a const that an
\* outer environment declared and has not initialized
C28_SetRefusedInDeadZone ==
  /\ call.op = "Set" /\ call.err # NoError
  /\ Resolve(envs, call.env, call.name) \notin {0, call.env}
  /\ Resolved(envs, call.env, call.name).kind = "const"
  /\ InDeadZone(envs, call.env, call.name)

\* C29: Set on an initialized const binding returns an error and leaves the
\* binding's value unchanged, whether it is called on the declaring
\* environment or on any descendant environment.
C29_ConstIsNeverAssigned ==
  [][(/\ call'.op = "Set"
      /\ Resolve(envs, call'.env, call'.name) # 0
      /\ Resolved(envs, call'.env, call'.name).kind = "const"
      /\ Resolved(envs, call'.env, call'.name).initialized)
       => /\ call'.err # NoError
          /\ Resolved(envs', call'.env, call'.name)
               = Resolved(envs, call'.env, call'.name)
          /\ envs' = envs]_vars

\* Set has just been refused on the innermost of three environments for an
\* initialized const of the outermost
C29_SetRefusedOnDescendant ==
  /\ call.op = "Set" /\ call.env = 3
  /\ call.err = "TypeError: Assignment to constant variable"
  /\ Resolve(envs, call.env, call.name) = 1
  /\ Resolved(envs, call.env, call.name).value \in InitialValues

\* the names each environment of the heap declares
Declared(heap) == [e \in 1 .. Len(heap) |-> DOMAIN heap[e].record]

\* C30: Get and Set called on an inner environment resolve a name to the
\* nearest enclosing environment that declares it: Set updates that binding
\* in place and never creates a binding in the inner environment, and Get or
\* Set of a name declared nowhere on the chain returns an error and changes
\* nothing.
C30_NearestDeclaringEnvironment ==
  [][call'.op \in {"Get", "Set"}
       => LET e == call'.env
              name == call'.name
              r == Resolve(envs, e, name)
          IN IF r = 0 THEN call'.err # NoError /\ envs' = envs
             ELSE /\ Declared(envs') = Declared(envs)
                  /\ \A o \in 1 .. Len(envs) : o # r => envs'[o] = envs[o]
                  /\ call'.op = "Get"
                       => /\ envs' = envs
                          /\ call'.err = NoError => call'.val = envs[r].record[name].value
                          /\ call'.err = NoError <=> envs[r].record[name].initialized
                  /\ call'.op = "Set"
                       => /\ call'.err = NoError
                               => envs'[r].record[name].value = call'.arg
                          /\ call'.err # NoError => envs' = envs
                          /\ call'.err = NoError
                               <=> (envs[r].record[name].initialized
                                      /\ envs[r].record[name].mutable)]_vars

\* Set on the innermost of three environments has just updated the binding
\* of the middle one, which shadows a binding of the outermost
C30_SetReachedNearest ==
  /\ call.op = "Set" /\ call.err = NoError /\ call.env = 3
  /\ Resolve(envs, 3, call.name) = 2
  /\ HasOwn(envs, 1, call.name)
  /\ envs[2].record[call.name].value = call.arg
  /\ envs[1].record[call.name].value # call.arg

----------------------------------------------------------------------------
(* Redeclaration in an environment *)

\* C31: Declare(name, var) when name is already a var binding in the same
\* variable scope returns no error and leaves the existing binding and its
\* value unchanged; any other redeclaration of a name that already exists in
\* the target scope returns an error and leaves the existing binding unchanged.
C31_RedeclarationChangesNothing ==
  [][(/\ call'.op = "Declare"
      /\ HasOwn(envs, targetFor(envs, call'.env, call'.kind), call'.name))
       => LET target == targetFor(envs, call'.env, call'.kind)
              existing == envs[target].record[call'.name]
          IN /\ envs'[target].record[call'.name] = existing
             /\ envs' = envs
             /\ call'.err = NoError <=> (call'.kind = "var" /\ existing.kind = "var")]_vars

\* a var that holds an assigned value has just been declared again, without
\* error, from a block environment inside its variable scope
C31_VarDeclaredAgainFromBlock ==
  /\ call.op = "Declare" /\ call.kind = "var" /\ call.err = NoError
  /\ call.env = 2 /\ ~envs[2].isVarEnv
  /\ HasOwn(envs, 1, call.name)
  /\ envs[1].record[call.name].kind = "var"
  /\ envs[1].record[call.name].value \in AssignedValues

----------------------------------------------------------------------------
(* Template literals and the context stack *)

\* C32: after a complete template literal has been lexed (its TemplateTail
\* emitted), the template-context stack has the same depth and counters as
\* before its opening backtick, for any number of interpolations; so a "}"
\* after the template lexes as it would if the template were absent, as RBrace.
C32_TemplateRestoresContexts ==
  \A f \in InterpolationForms :
    (pc = "lexing" /\ lx.src \in InterpolationSources /\ lx.src = InterpolationSource(f))
      => /\ lastTok.Type = "TEMPLATE_TAIL" => lx.contexts = LexerNew(lx.src).contexts
         /\ (lastTok.Literal = <<"}">> /\ lastTok.Start.Offset >= Len(TemplateLiteral(f)))
              => lastTok.Type = "RBRACE"

----------------------------------------------------------------------------
(* Variable statements *)

\* the declarator d binds the i-th name, to the initializer 1 if init
IsDeclarator(d, i, init) ==
  /\ d.kind = "VariableDeclarator"
  /\ IsName(d.ID, DeclaratorNames[i])
  /\ IF init THEN ~IsNil(d.Init) /\ d.Init.kind = "NumberLiteral" ELSE IsNil(d.Init)

\* C33: a var/let/const statement with n comma-separated declarators yields
\* one VariableDeclaration with exactly n declarators in source order, each
\* with its own initializer, including when a declarator other than the last
\* has an initializer.
C33_OneDeclaratorPerBinding ==
  \A f \in DeclarationForms :
    (pc = "returned" /\ ps.lex.src \in DeclarationSources
       /\ ps.lex.src = DeclarationSource(f))
      => /\ ps.errors = <<>>
         /\ Len(programBody) = 1
         /\ programBody[1].kind = "VariableDeclaration"
         /\ programBody[1].Kind = f.kind.kind
         /\ Len(programBody[1].Declarations) = Len(f.inits)
         /\ \A i \in 1 .. Len(f.inits) :
              IsDeclarator(programBody[1].Declarations[i], i, f.inits[i])

----------------------------------------------------------------------------
(* new before a member chain *)

RECURSIVE IsMemberChain(_, _)
\* the expression e is the name a followed by the member accesses of links
IsMemberChain(e, links) ==
  IF links = <<>> THEN ~IsNil(e) /\ IsName(e, "a")
  ELSE LET last == links[Len(links)] IN
       /\ ~IsNil(e) /\ e.kind = "MemberExpression"
       /\ e.Computed = (last[1] = <<"[">>)
       /\ IF e.Computed THEN e.Property.kind = "NumberLiteral" ELSE IsName(e.Property, "b")
       /\ IsMemberChain(e.Object, SubSeq(links, 1, Len(links) - 1))

\* C34: "new" followed by a member chain with no argument list ("new a.b")
\* yields a NewExpression whose callee is the whole member expression, not a
\* member access on "new a".
C34_NewTakesWholeMemberChain ==
  \A c \in NewMemberForms :
    (pc = "returned" /\ ps.lex.src \in NewMemberSources
       /\ ps.lex.src = NewMemberSource(c))
      => /\ ps.errors = <<>>
         /\ ~IsNil(OnlyExpression)
         /\ OnlyExpression.kind = "NewExpression"
         /\ IsMemberChain(OnlyExpression.Callee, c)

----------------------------------------------------------------------------
(* The tokens around an interpolation *)

\* C35: in every token stream, each TemplateHead or TemplateMiddle token is
\* immediately followed by a TemplateExprStart token, and each
\* TemplateExprEnd token is immediately followed by a TemplateMiddle, a
\* TemplateTail or an Illegal token.
C35_InterpolationNeighbours ==
  [][/\ lastTok.Type \in {"TEMPLATE_HEAD", "TEMPLATE_MIDDLE"}
          => lastTok'.Type = "TEMPLATE_EXPR_START"
     /\ lastTok.Type = "TEMPLATE_EXPR_END"
          => lastTok'.Type \in {"TEMPLATE_MIDDLE", "TEMPLATE_TAIL", "ILLEGAL"}]_vars

\* the lexer has returned TemplateExprEnd, TemplateMiddle and
\* TemplateExprStart one after the other
C35_MiddleBetweenInterpolations ==
  \E i \in 1 .. Len(emitted) - 2 :
    /\ emitted[i].Type = "TEMPLATE_EXPR_END"
    /\ emitted[i + 1].Type = "TEMPLATE_MIDDLE"
    /\ emitted[i + 2].Type = "TEMPLATE_EXPR_START"

----------------------------------------------------------------------------
(* The precedence table and the infix rules *)

\* C36: every token kind that has an entry in the infix precedence table
\* also has a registered infix parse rule: the token the parser looks at never
\* has a precedence without a rule, and "a op b" parses, for every binary
\* operator op and for % in particular, as a BinaryExpression (or
\* LogicalExpression) with no syntax error.
C36_EveryPrecedenceHasInfixRule ==
  /\ precedences(ps.peekToken.Type) # lowest => ps.peekToken.Type \in InfixTokens
  /\ \A op \in BinaryOperators :
       (pc = "returned" /\ ps.lex.src \in InfixSources /\ ps.lex.src = InfixSource(op))
         => /\ ps.errors = <<>>
            /\ ~IsNil(OnlyExpression)
            /\ IsBinary(OnlyExpression, op)
            /\ IsName(OnlyExpression.Left, "a")
            /\ IsName(OnlyExpression.Right, "b")

----------------------------------------------------------------------------
(* The token kinds with a parse rule *)

\* C37: every token kind that has a registered prefix or infix parse rule is
\* produced by the lexer for some source text: the samples name every such
\* kind, and the parser's first (second) token over a prefix (infix) sample
\* has the sample's kind; in particular "~x" lexes to a BitwiseNot token
\* followed by an Identifier and parses as a UnaryExpression.
C37_RegisteredKindsAreLexed ==
  /\ {s.kind : s \in PrefixSamples} = PrefixTokens
  /\ {s.kind : s \in InfixSamples} = InfixTokens
  /\ ps.lex.src \in RuleSampleSources =>
       /\ \A s \in PrefixSamples :
            (ps.lex.src = PrefixSampleSource(s) /\ ps = ParserNew(ps.lex.src))
              => ps.curToken.Type = s.kind
       /\ \A s \in InfixSamples :
            (ps.lex.src = InfixSampleSource(s) /\ ps = ParserNew(ps.lex.src))
              => ps.peekToken.Type = s.kind
       /\ (ps.lex.src = BitwiseNotSource /\ ps = ParserNew(ps.lex.src))
            => ps.curToken.Type = "BITWISE_NOT" /\ ps.peekToken.Type = "IDENT"
       /\ (ps.lex.src = BitwiseNotSource /\ pc = "returned")
            => /\ ps.errors = <<>>
               /\ ~IsNil(OnlyExpression)
               /\ OnlyExpression.kind = "UnaryExpression"
               /\ IsName(OnlyExpression.Argument, "x")

----------------------------------------------------------------------------
(* String literals *)

\* C38: every string literal that the lexer accepts as a String token,
\* single-quoted or double-quoted and with any backslash escape, parses as a
\* StringLiteral expression with no syntax error recorded.
C38_LexedStringsParse ==
  (/\ pc = "returned" /\ ps.lex.src \in StringSources
   /\ ParserNew(ps.lex.src).curToken.Type = "STRING"
   /\ ParserNew(ps.lex.src).curToken.Literal = ps.lex.src)
    => /\ ps.errors = <<>>
       /\ ~IsNil(OnlyExpression)
       /\ OnlyExpression.kind = "StringLiteral"

----------------------------------------------------------------------------
(* The label of break and continue *)

\* C39: a break or continue statement takes a label only when the next token
\* is an identifier on the same line as the keyword; when the identifier is on
\* a later line the statement has no label and the identifier begins the next
\* statement.
C39_LabelOnTheSameLine ==
  (pc = "returned" /\ ps.lex.src \in JumpSources)
    => \A f \in JumpForms :
      ps.lex.src = JumpFormSource(f)
      => /\ ps.errors = <<>>
         /\ Len(programBody) >= 1
         /\ programBody[1].kind = f.jump.kind
         /\ IF f.gap \in SameLineGaps
            THEN /\ Len(programBody) = 1
                 /\ ~IsNil(programBody[1].Label)
                 /\ IsName(programBody[1].Label, "b")
            ELSE /\ Len(programBody) = 2
                 /\ IsNil(programBody[1].Label)
                 /\ programBody[1].loc.End.Offset = Len(f.jump.word)
                 /\ programBody[2].kind = "ExpressionStatement"
                 /\ IsName(programBody[2].Expression, "b")

\* ParseProgram has returned a continue without label and the statement b,
\* for a source that has b on the line after continue
C39_IdentifierOnNextLine ==
  /\ pc = "returned"
  /\ ps.lex.src = wContinue \o <<CR, LF, "b", ";">>
  /\ ps.errors = <<>>
  /\ Len(programBody) = 2
  /\ programBody[1].kind = "ContinueStatement" /\ IsNil(programBody[1].Label)
  /\ programBody[2].kind = "ExpressionStatement"

----------------------------------------------------------------------------
(* The span of the token that opens an interpolation *)

\* C40: the span of every TemplateExprStart token covers exactly the two
\* characters "${": it starts at the offset where the preceding TemplateHead
\* or TemplateMiddle span ends and ends two bytes later.
C40_ExprStartSpansDollarBrace ==
  \A i \in 2 .. Len(emitted) :
    emitted[i].Type = "TEMPLATE_EXPR_START"
      => /\ emitted[i - 1].Type \in {"TEMPLATE_HEAD", "TEMPLATE_MIDDLE"}
         /\ emitted[i].Start.Offset = emitted[i - 1].End.Offset
         /\ emitted[i].End.Offset = emitted[i].Start.Offset + 2
         /\ SubSeq(lx.src, emitted[i].Start.Offset + 1, emitted[i].End.Offset)
              = <<"$", "{">>
============================================================================
